---- MODULE Spec2Model ----
(***************************************************************************)
(* Model of the advertising-compliance checker's RAG engine                *)
(* (src/app/rag_engine.py) and of the parts of the desktop shell           *)
(* (src/app/ui/app_window.py) that call it.                                *)
(*                                                                         *)
(* Spec        : the engine driven by one caller, one call at a time.      *)
(*               Every operation is one action; the outcome of each remote *)
(*               call it makes is chosen nondeterministically.             *)
(* SpecAnalyze : RAGEngine.analyze on every input, under every failure of  *)
(*               the vision model and of the assistant.                    *)
(* SpecShell   : the shell's UI thread, upload workers and analysis        *)
(*               workers, interleaved at the engine's remote calls.        *)
(* SpecDispatch: RAGEngine.analyze on every input, the assistant answering. *)
(* SpecAddFile : add_file under every failure of its remote calls.         *)
(* SpecRetry   : _retry_call on every pattern of failures of fn.           *)
(* SpecChunks  : DocumentProcessor.split_into_chunks                       *)
(*               (src/app/document_processor.py), one loop pass per step.  *)
(* SpecDocs    : remove_document and clear_all under every failure of      *)
(*               their remote calls, in a first or a later session.        *)
(* SpecRead    : get_loaded_sources and document_count.                    *)
(* SpecUpload  : the upload worker on selections of several files.         *)
(* SpecLoad    : DocumentProcessor.load_document and ._load_txt.           *)
(* SpecEngine  : add_file, remove_document, clear_all and analyze on one   *)
(*               ad text, under the failures of the index calls.           *)
(* SpecTracked : a restored session whose remote calls all succeed.        *)
(***************************************************************************)
EXTENDS Integers, Sequences, FiniteSets, TLC

\* ----------------------------------------------------------------- bounds
MaxNames == 2          \* distinct document names the user picks from
MaxRestored == 1       \* remote files left behind by an earlier session
MaxFiles == 2          \* remote files alive or tracked at one time
MaxIndexes == 2        \* remote search indexes alive at one time
MaxAssistants == 2     \* assistants ever created
MaxTextLen == 1        \* length of the ad text typed by the user
MaxWorkers == 2        \* worker threads the shell starts: uploads and analyses
MaxBatchLen == 1       \* files the user picks for one upload batch
MaxUploadLen == 2      \* files in one batch of the upload runs
MaxRetryBudget == 3    \* the largest max_retries passed to _retry_call
MaxChunkText == 6      \* length of the texts given to split_into_chunks
MaxChunkSize == 5      \* the largest chunk_size of a DocumentProcessor
MaxStemLen == 1        \* characters of a file name before its extensions
MaxSnapMid == 3        \* characters between the letters of a text with separators
SnapChunkSize == 6     \* the chunk_size the texts with separators are split with

\* -------------------------------------------------------- program constants
MAX_RETRIES == 3
RETRY_BASE_DELAY == 5
ExcerptLen == 200      \* str(e)[:200] in analyze_image and _parse_grpc_error
DefaultChunkSize == 1000       \* DocumentProcessor(chunk_size=1000, ...)
DefaultChunkOverlap == 200     \* DocumentProcessor(..., chunk_overlap=200)
PlainLen == 300        \* msg[:300] in _parse_grpc_error

\* ------------------------------------------------------------------ values
Names == 1..MaxNames            \* file names (Path(file_path).name)
NoName == 0                     \* a remote file whose metadata holds no name
Dirs == {"docs", "inbox"}
Paths == Dirs \X Names          \* file_path = <<directory, name>>
NoIndex == 0
NoAssistant == [id |-> 0, tool |-> NoIndex]

\* A file id used as a name (fname = fid): kept apart from the user's names.
IdAsName(fid) == 0 - fid

Chars == {" ", "x"}
Texts == UNION {[1..n -> Chars] : n \in 0..MaxTextLen}
ImagePaths == {"None", "missing.png", "ad.png"}
ExistingFiles == {"ad.png"}

Min(a, b) == IF a < b THEN a ELSE b
Take(s, n) == SubSeq(s, 1, Min(Len(s), n))

\* Remote error descriptions, as token sequences.
LongMsg == [i \in 1..(ExcerptLen + 1) |-> "z"]
RemoteErrs == {<<"PERMISSION_DENIED", "denied">>, <<"boom">>}
AgentErrs == {<<"NOT_FOUND", "folder">>}
VisionErrs == {<<"429", "quota">>, <<"blocked">>, LongMsg}

VARIABLES
    yandex,         \* RAGEngine.yandex is not None
    search_index,   \* YandexRAG._search_index
    files,          \* YandexRAG._files : name -> file id
    assistant,      \* YandexRAG._assistant
    index_dirty,    \* YandexRAG._index_dirty
    rIndexes,       \* remote: ids of the live search indexes labelled "ad_censor"
    rFiles,         \* remote: ids of the live files
    nAsst,          \* assistants created so far
    changeMark,     \* nAsst when the file set last changed
    last,           \* the last operation: its input, outcome and remote calls
    screen,         \* CensorApp: the frame shown, "welcome" or "workspace"
    loaded_docs,    \* CensorApp.loaded_docs
    add_docs_btn,   \* CensorApp.add_docs_btn is enabled
    is_analyzing,   \* CensorApp._is_analyzing
    stop_event,     \* CensorApp._stop_event is set
    results_text,   \* CensorApp.results_text: what the results panel shows
    uploads,        \* the upload workers, in the order they were started
    analyses,       \* the analysis workers, in the order they were started
    after_queue,    \* callbacks posted with self.after(0, ...), oldest first
    doc_cards,      \* the document cards that carry a remove button
    ui_call,        \* the engine call the UI thread is inside
    stopped,        \* the analyses the user stopped while their worker ran
    retry,          \* one call of _retry_call: its arguments and its outcome
    chunker,        \* one call of split_into_chunks: the processor's
                    \* configuration, the text and the locals of the loop
    loader          \* one call of load_document or of _load_txt: its path,
                    \* what the readers do, and its outcome

engineVars == <<yandex, search_index, files, assistant, index_dirty,
                rIndexes, rFiles, nAsst, changeMark, last>>
shellVars == <<screen, loaded_docs, add_docs_btn, is_analyzing, stop_event,
               results_text, uploads, analyses, after_queue, doc_cards, ui_call,
               stopped>>
libVars == <<retry, chunker, loader>>

\* ----------------------------------------------------------------- helpers

\* str.strip() on a text over Chars
RECURSIVE LStrip(_)
LStrip(s) == IF s # <<>> /\ Head(s) = " " THEN LStrip(Tail(s)) ELSE s
RECURSIVE RStrip(_)
RStrip(s) == IF s # <<>> /\ s[Len(s)] = " " THEN RStrip(SubSeq(s, 1, Len(s) - 1)) ELSE s
Strip(s) == RStrip(LStrip(s))

Basename(path) == path[2]

Call(c, ok) == [c |-> c, ok |-> ok]
CallNames(calls) == {calls[i].c : i \in 1..Len(calls)}

StatusCodes == {"PERMISSION_DENIED", "UNAUTHENTICATED", "NOT_FOUND",
                "INVALID_ARGUMENT", "RESOURCE_EXHAUSTED"}

\* _parse_grpc_error: a hint for a known status code plus the first 200
\* characters, otherwise the first 300 characters.
ParseGrpcError(msg) ==
    IF \E i \in 1..Len(msg) : msg[i] \in StatusCodes
    THEN [hint |-> TRUE, text |-> Take(msg, ExcerptLen)]
    ELSE [hint |-> FALSE, text |-> Take(msg, PlainLen)]

NoDetail == [hint |-> FALSE, text |-> <<>>]

\* The fields of the engine and of the remote service, as one record.
Eng == [search_index |-> search_index, files |-> files, assistant |-> assistant,
        index_dirty |-> index_dirty, rIndexes |-> rIndexes, rFiles |-> rFiles,
        nAsst |-> nAsst, changeMark |-> changeMark]

Commit(e) ==
    /\ search_index' = e.search_index
    /\ files' = e.files
    /\ assistant' = e.assistant
    /\ index_dirty' = e.index_dirty
    /\ rIndexes' = e.rIndexes
    /\ rFiles' = e.rFiles
    /\ nAsst' = e.nAsst
    /\ changeMark' = e.changeMark

Put(f, k, v) == [x \in DOMAIN f \cup {k} |-> IF x = k THEN v ELSE f[x]]
Drop(f, k) == [x \in DOMAIN f \ {k} |-> f[x]]
EmptyMap == [x \in {} |-> 0]
Range(f) == {f[x] : x \in DOMAIN f}

\* The id the remote service gives a new object: one no live object carries
\* and the engine holds no reference to.
FreshId(used) == CHOOSE i \in 1..(Cardinality(used) + 1) : i \notin used
NewFileId(e) == FreshId(e.rFiles \cup Range(e.files))
NewIndexId(e) == FreshId(e.rIndexes \cup {e.search_index, e.assistant.tool})

\* ------------------------------------------------- YandexRAG._ensure_assistant
\* o.tool, o.create : the search-tool construction / assistants.create succeed
\* o.adel           : the delete of the old assistant succeeds
\* _ensure_assistant without lines 209-214: the old assistant is neither
\* deleted nor dropped before the new one is created
EnsureAssistantKeepsOld(e, o) ==
    IF e.assistant # NoAssistant /\ ~e.index_dirty
    THEN [e |-> e, raised |-> FALSE, err |-> <<>>, calls |-> <<>>]
    ELSE
      LET held == e.assistant # NoAssistant
          c1 == <<>>
          e1 == e
          withTool == e1.search_index # NoIndex
      IN  IF withTool /\ ~o.tool
          THEN [e |-> e1, raised |-> TRUE, err |-> o.err,
                calls |-> c1 \o <<Call("tools.search_index", FALSE)>>]
          ELSE
            LET c2 == IF withTool THEN c1 \o <<Call("tools.search_index", TRUE)>> ELSE c1
            IN  IF ~o.create
                THEN [e |-> e1, raised |-> TRUE, err |-> o.err,
                      calls |-> c2 \o <<Call("assistants.create", FALSE)>>]
                ELSE [e |-> [e1 EXCEPT !.assistant = [id |-> e1.nAsst + 1,
                                                      tool |-> e1.search_index],
                                       !.nAsst = @ + 1,
                                       !.index_dirty = FALSE],
                      raised |-> FALSE, err |-> <<>>,
                      calls |-> c2 \o <<Call("assistants.create", TRUE)>>]

\* _ensure_assistant without the early return of lines 207-208
EnsureAssistantAlwaysRebuilds(e, o) ==
    IF FALSE
    THEN [e |-> e, raised |-> FALSE, err |-> <<>>, calls |-> <<>>]
    ELSE
      LET held == e.assistant # NoAssistant
          c1 == IF held THEN <<Call("assistant.delete", o.adel)>> ELSE <<>>
          e1 == [e EXCEPT !.assistant = NoAssistant]
          withTool == e1.search_index # NoIndex
      IN  IF withTool /\ ~o.tool
          THEN [e |-> e1, raised |-> TRUE, err |-> o.err,
                calls |-> c1 \o <<Call("tools.search_index", FALSE)>>]
          ELSE
            LET c2 == IF withTool THEN c1 \o <<Call("tools.search_index", TRUE)>> ELSE c1
            IN  IF ~o.create
                THEN [e |-> e1, raised |-> TRUE, err |-> o.err,
                      calls |-> c2 \o <<Call("assistants.create", FALSE)>>]
                ELSE [e |-> [e1 EXCEPT !.assistant = [id |-> e1.nAsst + 1,
                                                      tool |-> e1.search_index],
                                       !.nAsst = @ + 1,
                                       !.index_dirty = FALSE],
                      raised |-> FALSE, err |-> <<>>,
                      calls |-> c2 \o <<Call("assistants.create", TRUE)>>]

\* _ensure_assistant that clears the flag before it creates the assistant
EnsureAssistantClearsFirst(e, o) ==
    IF e.assistant # NoAssistant /\ ~e.index_dirty
    THEN [e |-> e, raised |-> FALSE, err |-> <<>>, calls |-> <<>>]
    ELSE
      LET held == e.assistant # NoAssistant
          c1 == IF held THEN <<Call("assistant.delete", o.adel)>> ELSE <<>>
          e1 == [e EXCEPT !.assistant = NoAssistant, !.index_dirty = FALSE]
          withTool == e1.search_index # NoIndex
      IN  IF withTool /\ ~o.tool
          THEN [e |-> e1, raised |-> TRUE, err |-> o.err,
                calls |-> c1 \o <<Call("tools.search_index", FALSE)>>]
          ELSE
            LET c2 == IF withTool THEN c1 \o <<Call("tools.search_index", TRUE)>> ELSE c1
            IN  IF ~o.create
                THEN [e |-> e1, raised |-> TRUE, err |-> o.err,
                      calls |-> c2 \o <<Call("assistants.create", FALSE)>>]
                ELSE [e |-> [e1 EXCEPT !.assistant = [id |-> e1.nAsst + 1,
                                                      tool |-> e1.search_index],
                                       !.nAsst = @ + 1,
                                       !.index_dirty = FALSE],
                      raised |-> FALSE, err |-> <<>>,
                      calls |-> c2 \o <<Call("assistants.create", TRUE)>>]

EnsureAssistant(e, o) ==
    IF e.assistant # NoAssistant /\ ~e.index_dirty
    THEN [e |-> e, raised |-> FALSE, err |-> <<>>, calls |-> <<>>]
    ELSE
      LET held == e.assistant # NoAssistant
          c1 == IF held THEN <<Call("assistant.delete", o.adel)>> ELSE <<>>
          e1 == [e EXCEPT !.assistant = NoAssistant]
          withTool == e1.search_index # NoIndex
      IN  IF withTool /\ ~o.tool
          THEN [e |-> e1, raised |-> TRUE, err |-> o.err,
                calls |-> c1 \o <<Call("tools.search_index", FALSE)>>]
          ELSE
            LET c2 == IF withTool THEN c1 \o <<Call("tools.search_index", TRUE)>> ELSE c1
            IN  IF ~o.create
                THEN [e |-> e1, raised |-> TRUE, err |-> o.err,
                      calls |-> c2 \o <<Call("assistants.create", FALSE)>>]
                ELSE [e |-> [e1 EXCEPT !.assistant = [id |-> e1.nAsst + 1,
                                                      tool |-> e1.search_index],
                                       !.nAsst = @ + 1,
                                       !.index_dirty = FALSE],
                      raised |-> FALSE, err |-> <<>>,
                      calls |-> c2 \o <<Call("assistants.create", TRUE)>>]

\* -------------------------------------------------------- YandexRAG.add_file
\* o.upload : files.upload succeeds;  o.index : the create / extend succeeds
\* add_file recording the name and setting the flag before the upload answers
AddFileRecordsFirst(e, path, o) ==
    LET name == Basename(path) IN
    IF ~o.upload
    THEN [e |-> [e EXCEPT !.files = Put(@, name, NewFileId(e)),
                          !.index_dirty = TRUE],
          raised |-> TRUE, tag |-> "upload_error",
          detail |-> ParseGrpcError(o.err),
          calls |-> <<Call("files.upload", FALSE)>>]
    ELSE
      LET fid == NewFileId(e)
          e1  == [e EXCEPT !.rFiles = @ \cup {fid},
                           !.files = Put(@, name, fid)]
          c1  == <<Call("files.upload", TRUE)>>
      IN  IF e1.search_index = NoIndex
          THEN IF ~o.index
               THEN [e |-> e1, raised |-> TRUE, tag |-> "indexing_error",
                     detail |-> ParseGrpcError(o.err),
                     calls |-> c1 \o <<Call("search_indexes.create", FALSE)>>]
               ELSE LET idx == NewIndexId(e1) IN
                    [e |-> [e1 EXCEPT !.rIndexes = @ \cup {idx},
                                      !.search_index = idx,
                                      !.index_dirty = TRUE,
                                      !.changeMark = e1.nAsst],
                     raised |-> FALSE, tag |-> "name", detail |-> NoDetail,
                     calls |-> c1 \o <<Call("search_indexes.create", TRUE)>>]
          ELSE IF ~o.index
               THEN [e |-> e1, raised |-> TRUE, tag |-> "indexing_error",
                     detail |-> ParseGrpcError(o.err),
                     calls |-> c1 \o <<Call("index.add_files", FALSE)>>]
               ELSE [e |-> [e1 EXCEPT !.index_dirty = TRUE,
                                      !.changeMark = e1.nAsst],
                     raised |-> FALSE, tag |-> "name", detail |-> NoDetail,
                     calls |-> c1 \o <<Call("index.add_files", TRUE)>>]

\* add_file undoing the upload when the create / extend fails
AddFileRollsBack(e, path, o) ==
    LET name == Basename(path) IN
    IF ~o.upload
    THEN [e |-> e, raised |-> TRUE, tag |-> "upload_error",
          detail |-> ParseGrpcError(o.err),
          calls |-> <<Call("files.upload", FALSE)>>]
    ELSE
      LET fid == NewFileId(e)
          e1  == [e EXCEPT !.rFiles = @ \cup {fid},
                           !.files = Put(@, name, fid)]
          c1  == <<Call("files.upload", TRUE)>>
      IN  IF e1.search_index = NoIndex
          THEN IF ~o.index
               THEN [e |-> e, raised |-> TRUE, tag |-> "indexing_error",
                     detail |-> ParseGrpcError(o.err),
                     calls |-> c1 \o <<Call("search_indexes.create", FALSE)>>]
               ELSE LET idx == NewIndexId(e1) IN
                    [e |-> [e1 EXCEPT !.rIndexes = @ \cup {idx},
                                      !.search_index = idx,
                                      !.index_dirty = TRUE,
                                      !.changeMark = e1.nAsst],
                     raised |-> FALSE, tag |-> "name", detail |-> NoDetail,
                     calls |-> c1 \o <<Call("search_indexes.create", TRUE)>>]
          ELSE IF ~o.index
               THEN [e |-> e, raised |-> TRUE, tag |-> "indexing_error",
                     detail |-> ParseGrpcError(o.err),
                     calls |-> c1 \o <<Call("index.add_files", FALSE)>>]
               ELSE [e |-> [e1 EXCEPT !.index_dirty = TRUE,
                                      !.changeMark = e1.nAsst],
                     raised |-> FALSE, tag |-> "name", detail |-> NoDetail,
                     calls |-> c1 \o <<Call("index.add_files", TRUE)>>]

\* add_file without the assignment of the flag at line 248
AddFileKeepsClean(e, path, o) ==
    LET name == Basename(path) IN
    IF ~o.upload
    THEN [e |-> e, raised |-> TRUE, tag |-> "upload_error",
          detail |-> ParseGrpcError(o.err),
          calls |-> <<Call("files.upload", FALSE)>>]
    ELSE
      LET fid == NewFileId(e)
          e1  == [e EXCEPT !.rFiles = @ \cup {fid},
                           !.files = Put(@, name, fid)]
          c1  == <<Call("files.upload", TRUE)>>
      IN  IF e1.search_index = NoIndex
          THEN IF ~o.index
               THEN [e |-> e1, raised |-> TRUE, tag |-> "indexing_error",
                     detail |-> ParseGrpcError(o.err),
                     calls |-> c1 \o <<Call("search_indexes.create", FALSE)>>]
               ELSE LET idx == NewIndexId(e1) IN
                    [e |-> [e1 EXCEPT !.rIndexes = @ \cup {idx},
                                      !.search_index = idx,
                                      !.index_dirty = @,
                                      !.changeMark = e1.nAsst],
                     raised |-> FALSE, tag |-> "name", detail |-> NoDetail,
                     calls |-> c1 \o <<Call("search_indexes.create", TRUE)>>]
          ELSE IF ~o.index
               THEN [e |-> e1, raised |-> TRUE, tag |-> "indexing_error",
                     detail |-> ParseGrpcError(o.err),
                     calls |-> c1 \o <<Call("index.add_files", FALSE)>>]
               ELSE [e |-> [e1 EXCEPT !.index_dirty = @,
                                      !.changeMark = e1.nAsst],
                     raised |-> FALSE, tag |-> "name", detail |-> NoDetail,
                     calls |-> c1 \o <<Call("index.add_files", TRUE)>>]

\* add_file that asks for a new index whether or not one is held
AddFileAlwaysCreates(e, path, o) ==
    LET name == Basename(path) IN
    IF ~o.upload
    THEN [e |-> e, raised |-> TRUE, tag |-> "upload_error",
          detail |-> ParseGrpcError(o.err),
          calls |-> <<Call("files.upload", FALSE)>>]
    ELSE
      LET fid == NewFileId(e)
          e1  == [e EXCEPT !.rFiles = @ \cup {fid},
                           !.files = Put(@, name, fid)]
          c1  == <<Call("files.upload", TRUE)>>
      IN  IF TRUE
          THEN IF ~o.index
               THEN [e |-> e1, raised |-> TRUE, tag |-> "indexing_error",
                     detail |-> ParseGrpcError(o.err),
                     calls |-> c1 \o <<Call("search_indexes.create", FALSE)>>]
               ELSE LET idx == NewIndexId(e1) IN
                    [e |-> [e1 EXCEPT !.rIndexes = @ \cup {idx},
                                      !.search_index = idx,
                                      !.index_dirty = TRUE,
                                      !.changeMark = e1.nAsst],
                     raised |-> FALSE, tag |-> "name", detail |-> NoDetail,
                     calls |-> c1 \o <<Call("search_indexes.create", TRUE)>>]
          ELSE IF ~o.index
               THEN [e |-> e1, raised |-> TRUE, tag |-> "indexing_error",
                     detail |-> ParseGrpcError(o.err),
                     calls |-> c1 \o <<Call("index.add_files", FALSE)>>]
               ELSE [e |-> [e1 EXCEPT !.index_dirty = TRUE,
                                      !.changeMark = e1.nAsst],
                     raised |-> FALSE, tag |-> "name", detail |-> NoDetail,
                     calls |-> c1 \o <<Call("index.add_files", TRUE)>>]

AddFile(e, path, o) ==
    LET name == Basename(path) IN
    IF ~o.upload
    THEN [e |-> e, raised |-> TRUE, tag |-> "upload_error",
          detail |-> ParseGrpcError(o.err),
          calls |-> <<Call("files.upload", FALSE)>>]
    ELSE
      LET fid == NewFileId(e)
          e1  == [e EXCEPT !.rFiles = @ \cup {fid},
                           !.files = Put(@, name, fid)]
          c1  == <<Call("files.upload", TRUE)>>
      IN  IF e1.search_index = NoIndex
          THEN IF ~o.index
               THEN [e |-> e1, raised |-> TRUE, tag |-> "indexing_error",
                     detail |-> ParseGrpcError(o.err),
                     calls |-> c1 \o <<Call("search_indexes.create", FALSE)>>]
               ELSE LET idx == NewIndexId(e1) IN
                    [e |-> [e1 EXCEPT !.rIndexes = @ \cup {idx},
                                      !.search_index = idx,
                                      !.index_dirty = TRUE,
                                      !.changeMark = e1.nAsst],
                     raised |-> FALSE, tag |-> "name", detail |-> NoDetail,
                     calls |-> c1 \o <<Call("search_indexes.create", TRUE)>>]
          ELSE IF ~o.index
               THEN [e |-> e1, raised |-> TRUE, tag |-> "indexing_error",
                     detail |-> ParseGrpcError(o.err),
                     calls |-> c1 \o <<Call("index.add_files", FALSE)>>]
               ELSE [e |-> [e1 EXCEPT !.index_dirty = TRUE,
                                      !.changeMark = e1.nAsst],
                     raised |-> FALSE, tag |-> "name", detail |-> NoDetail,
                     calls |-> c1 \o <<Call("index.add_files", TRUE)>>]

\* ----------------------------------------------------- YandexRAG.remove_file
\* o.get, o.del : files.get(fid) and .delete() succeed
\* remove_file with the remote delete outside any try: the name is dropped
\* only once the delete went through
RemoveFileUnguarded(e, name, o) ==
    IF name \notin DOMAIN e.files
    THEN [e |-> e, raised |-> FALSE, tag |-> "none", detail |-> NoDetail,
          calls |-> <<>>]
    ELSE
      LET fid == e.files[name]
      IN  IF ~o.get
          THEN [e |-> e, raised |-> TRUE, tag |-> "none", detail |-> NoDetail,
                calls |-> <<Call("files.get", FALSE)>>]
          ELSE IF ~o.del
          THEN [e |-> e, raised |-> TRUE, tag |-> "none", detail |-> NoDetail,
                calls |-> <<Call("files.get", TRUE), Call("file.delete", FALSE)>>]
          ELSE [e |-> [e EXCEPT !.files = Drop(@, name), !.changeMark = e.nAsst,
                                !.rFiles = @ \ {fid}],
                raised |-> FALSE, tag |-> "none", detail |-> NoDetail,
                calls |-> <<Call("files.get", TRUE), Call("file.delete", TRUE)>>]

RemoveFile(e, name, o) ==
    IF name \notin DOMAIN e.files
    THEN [e |-> e, raised |-> FALSE, tag |-> "none", detail |-> NoDetail,
          calls |-> <<>>]
    ELSE
      LET fid == e.files[name]
          e1  == [e EXCEPT !.files = Drop(@, name), !.changeMark = e.nAsst]
      IN  IF ~o.get
          THEN [e |-> e1, raised |-> FALSE, tag |-> "none", detail |-> NoDetail,
                calls |-> <<Call("files.get", FALSE)>>]
          ELSE IF ~o.del
          THEN [e |-> e1, raised |-> FALSE, tag |-> "none", detail |-> NoDetail,
                calls |-> <<Call("files.get", TRUE), Call("file.delete", FALSE)>>]
          ELSE [e |-> [e1 EXCEPT !.rFiles = @ \ {fid}],
                raised |-> FALSE, tag |-> "none", detail |-> NoDetail,
                calls |-> <<Call("files.get", TRUE), Call("file.delete", TRUE)>>]

\* ------------------------------------------------------- YandexRAG.clear_all
\* o.adel, o.idel : the assistant / index delete succeeds
\* o.fkeep        : the tracked file ids whose remote delete fails
RECURSIVE FileDeletes(_, _)
FileDeletes(fids, fkeep) ==
    IF fids = {} THEN <<>>
    ELSE LET f == CHOOSE x \in fids : \A y \in fids : x <= y
         IN  <<Call("file.delete", f \notin fkeep)>> \o FileDeletes(fids \ {f}, fkeep)

\* clear_all with one try around the whole loop over the files: the first
\* failing delete ends the loop
FirstKept(fids, fkeep) ==
    IF fids \cap fkeep = {} THEN 0
    ELSE CHOOSE x \in fids \cap fkeep : \A y \in fids \cap fkeep : x <= y
ClearAllOneTry(e, o) ==
    LET c1   == IF e.assistant # NoAssistant
                THEN <<Call("assistant.delete", o.adel)>> ELSE <<>>
        c2   == IF e.search_index # NoIndex
                THEN <<Call("index.delete", o.idel)>> ELSE <<>>
        fids == {e.files[n] : n \in DOMAIN e.files}
        stop == FirstKept(fids, o.fkeep)
        tried == IF stop = 0 THEN fids ELSE {f \in fids : f <= stop}
    IN  [e |-> [e EXCEPT !.assistant = NoAssistant,
                         !.search_index = NoIndex,
                         !.rIndexes = IF e.search_index # NoIndex /\ o.idel
                                      THEN @ \ {e.search_index} ELSE @,
                         !.rFiles = @ \ (tried \ o.fkeep),
                         !.files = EmptyMap,
                         !.index_dirty = TRUE,
                         !.changeMark = e.nAsst],
         raised |-> FALSE, tag |-> "none", detail |-> NoDetail,
         calls |-> c1 \o c2 \o FileDeletes(tried, o.fkeep)]

ClearAll(e, o) ==
    LET c1   == IF e.assistant # NoAssistant
                THEN <<Call("assistant.delete", o.adel)>> ELSE <<>>
        c2   == IF e.search_index # NoIndex
                THEN <<Call("index.delete", o.idel)>> ELSE <<>>
        fids == {e.files[n] : n \in DOMAIN e.files}
        gone == fids \ o.fkeep
    IN  [e |-> [e EXCEPT !.assistant = NoAssistant,
                         !.search_index = NoIndex,
                         !.rIndexes = IF e.search_index # NoIndex /\ o.idel
                                      THEN @ \ {e.search_index} ELSE @,
                         !.rFiles = @ \ gone,
                         !.files = EmptyMap,
                         !.index_dirty = TRUE,
                         !.changeMark = e.nAsst],
         raised |-> FALSE, tag |-> "none", detail |-> NoDetail,
         calls |-> c1 \o c2 \o FileDeletes(fids, o.fkeep)]

\* ------------------------------------------ YandexRAG._load_existing_index
\* o.list  : search_indexes.list succeeds
\* o.order : the order in which the adopted index lists its files
\* o.k     : the number of files listed before list_files fails (all: no failure)
\* o.noget : the file ids whose files.get fails
RECURSIVE RestoreFiles(_, _, _, _)
RestoreFiles(fs, meta, order, noget) ==
    IF order = <<>> THEN fs
    ELSE LET fid   == Head(order)
             rname == IF fid \in noget THEN NoName ELSE meta[fid]
             fname == IF rname = NoName THEN IdAsName(fid) ELSE rname
         IN  RestoreFiles(Put(fs, fname, fid), meta, Tail(order), noget)

LoadExistingIndex(e, rMeta, o) ==
    IF ~o.list \/ e.rIndexes = {}
    THEN [e |-> e, raised |-> FALSE, calls |-> <<Call("search_indexes.list", o.list)>>]
    ELSE
      LET si == CHOOSE x \in e.rIndexes : \A y \in e.rIndexes : x <= y
          done == SubSeq(o.order, 1, o.k)
      IN  [e |-> [e EXCEPT !.search_index = si,
                           !.files = RestoreFiles(@, rMeta, done, o.noget),
                           !.index_dirty = IF o.k = Len(o.order) THEN TRUE ELSE @],
           raised |-> FALSE,
           calls |-> <<Call("search_indexes.list", TRUE),
                       Call("index.list_files", o.k = Len(o.order))>>]

\* ------------------------------------------------------- YandexRAG.analyze
\* o.thread : "ok", or the first call of the thread sequence that fails
\* o.reply  : result.text;  o.tdel : thread.delete succeeds
ThreadOutcomes == {"ok", "create_fail", "write_fail", "run_fail", "wait_fail"}
Replies == {<<" ">>, <<"x">>}

YAnalyze(e, query, o) ==
    LET ens == EnsureAssistant(e, o) IN
    IF ens.raised
    THEN [e |-> ens.e, raised |-> TRUE, tag |-> "ensure_error",
          detail |-> [hint |-> FALSE, text |-> ens.err], calls |-> ens.calls,
          ran |-> NoAssistant, ranDirty |-> FALSE]
    ELSE IF ens.e.assistant = NoAssistant
    THEN [e |-> ens.e, raised |-> FALSE, tag |-> "assistant_none",
          detail |-> NoDetail, calls |-> ens.calls,
          ran |-> NoAssistant, ranDirty |-> FALSE]
    ELSE
      LET e1 == ens.e
          failed(cs) == [e |-> e1, raised |-> FALSE, tag |-> "analysis_error",
                         detail |-> ParseGrpcError(o.err), calls |-> ens.calls \o cs,
                         ran |-> NoAssistant, ranDirty |-> FALSE]
          started(r) == [r EXCEPT !.ran = e1.assistant, !.ranDirty = e1.index_dirty]
          tc == Call("threads.create", TRUE)
          tw == Call("thread.write", TRUE)
          tr == Call("assistant.run", TRUE)
      IN  CASE o.thread = "create_fail" ->
                 failed(<<Call("threads.create", FALSE)>>)
            [] o.thread = "write_fail" ->
                 failed(<<tc, Call("thread.write", FALSE)>>)
            [] o.thread = "run_fail" ->
                 started(failed(<<tc, tw, Call("assistant.run", FALSE)>>))
            [] o.thread = "wait_fail" ->
                 started(failed(<<tc, tw, tr, Call("run.wait", FALSE)>>))
            [] OTHER ->
                 [e |-> e1, raised |-> FALSE,
                  tag |-> IF Strip(o.reply) # <<>> THEN "reply" ELSE "empty_reply",
                  detail |-> [hint |-> FALSE,
                              text |-> IF Strip(o.reply) # <<>> THEN o.reply ELSE <<>>],
                  calls |-> ens.calls \o <<tc, tw, tr, Call("run.wait", TRUE),
                                           Call("thread.delete", o.tdel)>>,
                  ran |-> e1.assistant, ranDirty |-> e1.index_dirty]

\* --------------------------------------------------------------- _retry_call
\* script[i] is the outcome of the i-th invocation of fn.
IsRateLimit(err) ==
    \E i \in 1..Len(err) : err[i] \in {"429", "ResourceExhausted"}

RECURSIVE Pow2(_)
Pow2(n) == IF n = 0 THEN 1 ELSE 2 * Pow2(n - 1)

\* _retry_call with a delay that grows linearly: base_delay * (attempt + 1)
RECURSIVE RetryFromLinear(_, _, _, _, _)
RetryFromLinear(script, attempt, max_retries, base_delay, sleeps) ==
    IF attempt > max_retries
    THEN [raised |-> TRUE, val |-> <<>>, err |-> script[attempt].err,
          invocations |-> attempt, sleeps |-> sleeps]
    ELSE LET r == script[attempt + 1] IN
         IF r.ok
         THEN [raised |-> FALSE, val |-> r.val, err |-> <<>>,
               invocations |-> attempt + 1, sleeps |-> sleeps]
         ELSE IF IsRateLimit(r.err) /\ attempt < max_retries
         THEN RetryFromLinear(script, attempt + 1, max_retries, base_delay,
                              Append(sleeps, base_delay * (attempt + 1)))
         ELSE [raised |-> TRUE, val |-> <<>>, err |-> r.err,
               invocations |-> attempt + 1, sleeps |-> sleeps]

\* _retry_call without the is_rate_limit test: every error is retried
RECURSIVE RetryFromAnyError(_, _, _, _, _)
RetryFromAnyError(script, attempt, max_retries, base_delay, sleeps) ==
    IF attempt > max_retries
    THEN [raised |-> TRUE, val |-> <<>>, err |-> script[attempt].err,
          invocations |-> attempt, sleeps |-> sleeps]
    ELSE LET r == script[attempt + 1] IN
         IF r.ok
         THEN [raised |-> FALSE, val |-> r.val, err |-> <<>>,
               invocations |-> attempt + 1, sleeps |-> sleeps]
         ELSE IF attempt < max_retries
         THEN RetryFromAnyError(script, attempt + 1, max_retries, base_delay,
                                Append(sleeps, base_delay * Pow2(attempt)))
         ELSE [raised |-> TRUE, val |-> <<>>, err |-> r.err,
               invocations |-> attempt + 1, sleeps |-> sleeps]

\* _retry_call without the "attempt < max_retries" test: it sleeps after the
\* last invocation too and leaves the loop by "raise last_err"
RECURSIVE RetryFromSleepsLast(_, _, _, _, _)
RetryFromSleepsLast(script, attempt, max_retries, base_delay, sleeps) ==
    IF attempt > max_retries
    THEN [raised |-> TRUE, val |-> <<>>, err |-> script[attempt].err,
          invocations |-> attempt, sleeps |-> sleeps]
    ELSE LET r == script[attempt + 1] IN
         IF r.ok
         THEN [raised |-> FALSE, val |-> r.val, err |-> <<>>,
               invocations |-> attempt + 1, sleeps |-> sleeps]
         ELSE IF IsRateLimit(r.err)
         THEN RetryFromSleepsLast(script, attempt + 1, max_retries, base_delay,
                                  Append(sleeps, base_delay * Pow2(attempt)))
         ELSE [raised |-> TRUE, val |-> <<>>, err |-> r.err,
               invocations |-> attempt + 1, sleeps |-> sleeps]

RECURSIVE RetryFrom(_, _, _, _, _)
RetryFrom(script, attempt, max_retries, base_delay, sleeps) ==
    IF attempt > max_retries
    THEN [raised |-> TRUE, val |-> <<>>, err |-> script[attempt].err,
          invocations |-> attempt, sleeps |-> sleeps]
    ELSE LET r == script[attempt + 1] IN
         IF r.ok
         THEN [raised |-> FALSE, val |-> r.val, err |-> <<>>,
               invocations |-> attempt + 1, sleeps |-> sleeps]
         ELSE IF IsRateLimit(r.err) /\ attempt < max_retries
         THEN RetryFrom(script, attempt + 1, max_retries, base_delay,
                        Append(sleeps, base_delay * Pow2(attempt)))
         ELSE [raised |-> TRUE, val |-> <<>>, err |-> r.err,
               invocations |-> attempt + 1, sleeps |-> sleeps]

RetryCall(script, max_retries, base_delay) ==
    RetryFrom(script, 0, max_retries, base_delay, <<>>)

FnOk(v)   == [ok |-> TRUE, val |-> v, err |-> <<>>]
FnFail(m) == [ok |-> FALSE, val |-> <<>>, err |-> m]

\* The outcomes of the invocations _retry_call makes: rate-limit failures up to
\* the invocation that ends the call.
Descriptions == {<<"d">>}
VisionOutcomes == {FnOk(d) : d \in Descriptions} \cup {FnFail(m) : m \in VisionErrs}
Scripts(max_retries) ==
    UNION {{s \in [1..n -> VisionOutcomes] :
              /\ \A i \in 1..(n - 1) : ~s[i].ok /\ IsRateLimit(s[i].err)
              /\ n = max_retries + 1 \/ s[n].ok \/ ~IsRateLimit(s[n].err)}
           : n \in 1..(max_retries + 1)}

\* -------------------------------------------------- RAGEngine.describe_image
\* o.open : Image.open succeeds;  o.script : the vision model's outcomes
VisionCalls(r) == [i \in 1..r.invocations |->
                      Call("model.generate_content", i = r.invocations /\ ~r.raised)]

DescribeImage(o) ==
    IF ~o.open
    THEN [raised |-> TRUE, val |-> <<>>, err |-> <<"cannot", "identify", "image">>,
          calls |-> <<>>, sleeps |-> <<>>]
    ELSE LET r == RetryCall(o.script, MAX_RETRIES, RETRY_BASE_DELAY)
         IN  [raised |-> r.raised, val |-> r.val, err |-> r.err,
              calls |-> VisionCalls(r), sleeps |-> r.sleeps]

\* ------------------------------------------------------ RAGEngine.analyze_*
NoQuery == [kind |-> "none", text |-> <<>>, desc |-> <<>>, count |-> 0]
DocumentCount(configured, e) == IF configured THEN Cardinality(DOMAIN e.files) ELSE 0

Plain(e, tag, detail, calls) ==
    [e |-> e, raised |-> FALSE, tag |-> tag, detail |-> detail, calls |-> calls,
     ran |-> NoAssistant, ranDirty |-> FALSE, query |-> NoQuery]

\* analyze_text without its "if not self.yandex" guard
AnalyzeTextUnguarded(configured, e, text, o) ==
    LET query == [kind |-> "text", text |-> text, desc |-> <<>>,
                  count |-> DocumentCount(configured, e)]
        r == YAnalyze(e, query, o)
    IN  [e |-> r.e, raised |-> r.raised, tag |-> r.tag, detail |-> r.detail,
         calls |-> r.calls, ran |-> r.ran, ranDirty |-> r.ranDirty,
         query |-> query]

AnalyzeText(configured, e, text, o) ==
    IF ~configured
    THEN Plain(e, "not_configured", NoDetail, <<>>)
    ELSE LET query == [kind |-> "text", text |-> text, desc |-> <<>>,
                       count |-> DocumentCount(configured, e)]
             r == YAnalyze(e, query, o)
         IN  [e |-> r.e, raised |-> r.raised, tag |-> r.tag, detail |-> r.detail,
              calls |-> r.calls, ran |-> r.ran, ranDirty |-> r.ranDirty,
              query |-> query]

\* analyze_image preparing the assistant before it describes the image
AnalyzeImageEnsuresFirst(configured, e, image_path, text, o) ==
    IF ~configured
    THEN Plain(e, "not_configured", NoDetail, <<>>)
    ELSE LET ens == EnsureAssistant(e, o)
             d == DescribeImage(o)
         IN  IF d.raised
             THEN Plain(ens.e, "vision_error",
                        [hint |-> FALSE, text |-> Take(d.err, ExcerptLen)],
                        ens.calls \o d.calls)
             ELSE LET query == [kind |-> "image",
                                text |-> IF Strip(text) # <<>> THEN text ELSE <<>>,
                                desc |-> d.val,
                                count |-> DocumentCount(configured, e)]
                      r == YAnalyze(e, query, o)
                  IN  [e |-> r.e, raised |-> r.raised, tag |-> r.tag,
                       detail |-> r.detail, calls |-> d.calls \o r.calls,
                       ran |-> r.ran, ranDirty |-> r.ranDirty, query |-> query]

AnalyzeImage(configured, e, image_path, text, o) ==
    IF ~configured
    THEN Plain(e, "not_configured", NoDetail, <<>>)
    ELSE LET d == DescribeImage(o) IN
         IF d.raised
         THEN Plain(e, "vision_error",
                    [hint |-> FALSE, text |-> Take(d.err, ExcerptLen)], d.calls)
         ELSE LET query == [kind |-> "image",
                            text |-> IF Strip(text) # <<>> THEN text ELSE <<>>,
                            desc |-> d.val,
                            count |-> DocumentCount(configured, e)]
                  r == YAnalyze(e, query, o)
              IN  [e |-> r.e, raised |-> r.raised, tag |-> r.tag,
                   detail |-> r.detail, calls |-> d.calls \o r.calls,
                   ran |-> r.ran, ranDirty |-> r.ranDirty, query |-> query]

\* ---------------------------------------------------------- RAGEngine.analyze
IsFile(p) == p \in ExistingFiles
Truthy(p) == p # "None"

\* analyze without the os.path.isfile test: every image path that is set
\* takes the image flow
AnalyzeAnyPath(configured, e, text, image_path, o) ==
    IF Truthy(image_path)
    THEN AnalyzeImage(configured, e, image_path, text, o)
    ELSE IF Strip(text) # <<>>
    THEN AnalyzeText(configured, e, text, o)
    ELSE Plain(e, "nothing_submitted", NoDetail, <<>>)

\* analyze without the text.strip() test: every call without an image file
\* takes the text flow
AnalyzeAlwaysText(configured, e, text, image_path, o) ==
    IF Truthy(image_path) /\ IsFile(image_path)
    THEN AnalyzeImage(configured, e, image_path, text, o)
    ELSE AnalyzeText(configured, e, text, o)

Analyze(configured, e, text, image_path, o) ==
    IF Truthy(image_path) /\ IsFile(image_path)
    THEN AnalyzeImage(configured, e, image_path, text, o)
    ELSE IF Strip(text) # <<>>
    THEN AnalyzeText(configured, e, text, o)
    ELSE Plain(e, "nothing_submitted", NoDetail, <<>>)

\* ------------------------------------------------- outcomes of remote calls
Bool == {TRUE, FALSE}
NoErr == <<>>

\* One record per distinguishable run of _ensure_assistant followed by the
\* thread sequence: the calls after the first failing one are not made.
AgentOk == [adel : Bool, tool : {TRUE}, create : {TRUE}, thread : {"ok"},
            reply : Replies, tdel : Bool, err : {NoErr}]
EnsureFail ==
    [adel : Bool, tool : {FALSE}, create : {TRUE}, thread : {"ok"},
     reply : {<<>>}, tdel : {TRUE}, err : AgentErrs]
    \cup
    [adel : Bool, tool : {TRUE}, create : {FALSE}, thread : {"ok"},
     reply : {<<>>}, tdel : {TRUE}, err : AgentErrs]
ThreadFail ==
    [adel : Bool, tool : {TRUE}, create : {TRUE}, thread : ThreadOutcomes \ {"ok"},
     reply : {<<>>}, tdel : {TRUE}, err : AgentErrs]
AgentOutcomes == AgentOk \cup EnsureFail \cup ThreadFail
AnyAgentOk == [adel |-> TRUE, tool |-> TRUE, create |-> TRUE, thread |-> "ok",
               reply |-> <<"x">>, tdel |-> TRUE, err |-> NoErr]

NoVisionRun == [open |-> TRUE, script |-> <<FnOk(<<"d">>)>>]
\* The vision model answers or fails at once, or after every retry was used.
VisionScripts == {s \in Scripts(MAX_RETRIES) : Len(s) \in {1, MAX_RETRIES + 1}}
VisionRuns == [open : {TRUE}, script : VisionScripts]
              \cup {[open |-> FALSE, script |-> <<FnOk(<<"d">>)>>]}

Merge(a, v) == [adel |-> a.adel, tool |-> a.tool, create |-> a.create,
                thread |-> a.thread, reply |-> a.reply, tdel |-> a.tdel,
                err |-> a.err, open |-> v.open, script |-> v.script]

TextRuns == {Merge(a, NoVisionRun) : a \in AgentOutcomes}
ImageRuns ==
    {Merge(AnyAgentOk, v) : v \in {w \in VisionRuns : DescribeImage(w).raised}}
    \cup {Merge(a, v) : a \in AgentOutcomes,
                        v \in {w \in VisionRuns : ~DescribeImage(w).raised}}
NoRun == Merge(AnyAgentOk, NoVisionRun)

\* The outcomes that can differ in the current state: the old assistant's
\* delete is attempted only when one is held and the flag is set.
Relevant(outcomes) ==
    IF assistant # NoAssistant /\ index_dirty THEN outcomes
    ELSE {a \in outcomes : a.adel}

AddOutcomes == [upload : {FALSE}, index : {TRUE}, err : RemoteErrs]
               \cup [upload : {TRUE}, index : {FALSE}, err : RemoteErrs]
               \cup [upload : {TRUE}, index : {TRUE}, err : {NoErr}]
RemoveOutcomes == {[get |-> FALSE, del |-> TRUE], [get |-> TRUE, del |-> FALSE],
                   [get |-> TRUE, del |-> TRUE]}

Perms(S) == {f \in [1..Cardinality(S) -> S] : \A i, j \in DOMAIN f : f[i] = f[j] => i = j}

\* ------------------------------------------------------- the last operation
NoLast == [op |-> "none", name |-> 0, text |-> <<>>, image |-> "None",
           raised |-> FALSE, tag |-> "none", detail |-> NoDetail, calls |-> <<>>,
           ran |-> NoAssistant, ranDirty |-> FALSE, ranMark |-> 0, query |-> NoQuery,
           vision |-> [open |-> TRUE, script |-> <<>>], sources |-> <<>>, count |-> 0]

Done(op, name, r) ==
    [NoLast EXCEPT !.op = op, !.name = name, !.raised = r.raised, !.tag = r.tag,
                   !.detail = r.detail, !.calls = r.calls]

\* --------------------------- Init: RAGEngine.__init__ / YandexRAG.__init__
\* What an earlier session left on the remote service: files 1..k with the
\* names in their metadata, all members of one labelled index when it exists.
InitMetas == UNION {[1..k -> Names \cup {NoName}] : k \in 0..MaxRestored}

\* __init__ without its assignment of the flag before the restore
FreshClean(rmeta, hasIndex) ==
    [search_index |-> NoIndex, files |-> EmptyMap, assistant |-> NoAssistant,
     index_dirty |-> FALSE, rIndexes |-> IF hasIndex THEN {1} ELSE {},
     rFiles |-> DOMAIN rmeta, nAsst |-> 0, changeMark |-> 0]

Fresh(rmeta, hasIndex) ==
    [search_index |-> NoIndex, files |-> EmptyMap, assistant |-> NoAssistant,
     index_dirty |-> TRUE, rIndexes |-> IF hasIndex THEN {1} ELSE {},
     rFiles |-> DOMAIN rmeta, nAsst |-> 0, changeMark |-> 0]

\* how : "no_credentials", "sdk_failed" (AIStudio(...) raised) or "ok"
Construct(how, rmeta, hasIndex, o) ==
    IF how # "ok"
    THEN [yandex |-> FALSE, e |-> Fresh(rmeta, hasIndex), raised |-> FALSE,
          calls |-> <<>>]
    ELSE LET r == LoadExistingIndex(Fresh(rmeta, hasIndex), rmeta, o)
         IN  [yandex |-> TRUE, e |-> r.e, raised |-> r.raised, calls |-> r.calls]

RestoreOutcomes(members) ==
    {[list |-> l, order |-> ord, k |-> k, noget |-> ng] :
        l \in Bool, ord \in Perms(members), k \in 0..Cardinality(members),
        ng \in SUBSET members}

\* metas, indexed : what the earlier sessions may have left
EngineStart(metas, indexed) ==
    \E how \in {"no_credentials", "sdk_failed", "ok"}, rmeta \in metas,
       hasIndex \in indexed :
      \E o \in RestoreOutcomes(IF hasIndex THEN DOMAIN rmeta ELSE {}) :
        LET c == Construct(how, rmeta, hasIndex, o) IN
        /\ yandex = c.yandex
        /\ search_index = c.e.search_index
        /\ files = c.e.files
        /\ assistant = c.e.assistant
        /\ index_dirty = c.e.index_dirty
        /\ rIndexes = c.e.rIndexes
        /\ rFiles = c.e.rFiles
        /\ nAsst = c.e.nAsst
        /\ changeMark = c.e.changeMark
        /\ last = [NoLast EXCEPT !.op = "init", !.tag = how, !.raised = c.raised,
                                 !.calls = c.calls]

EngineInit == EngineStart(InitMetas, Bool)
\* the first session: nothing is left on the remote service
EngineFirstInit == EngineStart({<<>>}, {FALSE})

\* ------------------------------------------------------- RAGEngine.add_file
AddFileStep(paths, outcomes) ==
    /\ \E path \in paths, o \in outcomes :
         IF ~yandex
         THEN /\ Commit(Eng)
              /\ last' = [NoLast EXCEPT !.op = "add_file", !.name = Basename(path),
                                        !.raised = TRUE, !.tag = "not_configured"]
         ELSE \E r \in {AddFile(Eng, path, o)} :
              /\ Cardinality(r.e.rFiles) <= MaxFiles
              /\ Cardinality(r.e.rIndexes) <= MaxIndexes
              /\ Commit(r.e)
              /\ last' = Done("add_file", Basename(path), r)
    /\ UNCHANGED <<yandex, shellVars, libVars>>

\* ------------------------------------------------ RAGEngine.remove_document
RemoveDocumentStep(outcomes) ==
    /\ \E name \in Names \cup {IdAsName(f) : f \in 1..MaxRestored}, o \in outcomes :
         IF ~yandex
         THEN /\ Commit(Eng)
              /\ last' = [NoLast EXCEPT !.op = "remove_file", !.name = name]
         ELSE \E r \in {RemoveFile(Eng, name, o)} :
              /\ Commit(r.e)
              /\ last' = Done("remove_file", name, r)
    /\ UNCHANGED <<yandex, shellVars, libVars>>

\* ------------------------------------------------------ RAGEngine.clear_all
ClearAllStep(outcomes) ==
    /\ IF ~yandex
       THEN /\ Commit(Eng)
            /\ last' = [NoLast EXCEPT !.op = "clear_all"]
       ELSE \E ok \in outcomes, fkeep \in SUBSET Range(files) :
            \E r \in {ClearAll(Eng, [adel |-> ok.adel, idel |-> ok.idel,
                                     fkeep |-> IF ok.fdel THEN {} ELSE fkeep])} :
                /\ ~ok.fdel => fkeep # {}
                /\ Commit(r.e)
                /\ last' = Done("clear_all", 0, r)
    /\ UNCHANGED <<yandex, shellVars, libVars>>

\* ---------------------------------------------------- RAGEngine.analyze_text
Analyzed(text, image_path, o, r) ==
    [op |-> "analyze", name |-> 0, text |-> text, image |-> image_path,
     raised |-> r.raised, tag |-> r.tag, detail |-> r.detail, calls |-> r.calls,
     ran |-> r.ran, ranDirty |-> r.ranDirty, ranMark |-> r.e.changeMark,
     query |-> r.query, vision |-> [open |-> o.open, script |-> o.script],
     sources |-> <<>>, count |-> 0]

AnalyzeTextOn(texts, runs) ==
    /\ \E text \in {t \in texts : Strip(t) # <<>>} :
       \E o \in (IF ~yandex THEN {NoRun} ELSE Relevant(runs)) :
       \E r \in {AnalyzeText(yandex, Eng, text, o)} :
         /\ r.e.nAsst <= MaxAssistants
         /\ Commit(r.e)
         /\ last' = Analyzed(text, "None", o, r)
    /\ UNCHANGED <<yandex, shellVars, libVars>>

\* -------------------------------------------------------- RAGEngine.analyze
AnalyzeStep(textRuns, imageRuns) ==
    /\ \E text \in Texts, image_path \in ImagePaths :
       \E o \in (IF ~yandex THEN {NoRun}
                 ELSE IF Truthy(image_path) /\ IsFile(image_path)
                      THEN Relevant(imageRuns)
                 ELSE IF Strip(text) # <<>> THEN Relevant(textRuns)
                 ELSE {NoRun}) :
       \E r \in {Analyze(yandex, Eng, text, image_path, o)} :
         /\ r.e.nAsst <= MaxAssistants
         /\ Commit(r.e)
         /\ last' = Analyzed(text, image_path, o, r)
    /\ UNCHANGED <<yandex, shellVars, libVars>>

\* ------------------------------------------------------------ the operations
ClearOutcomes == [adel : Bool, idel : Bool, fdel : Bool]
AllDeleted == [adel |-> TRUE, idel |-> TRUE, fdel |-> TRUE]
Uploaded == [upload |-> TRUE, index |-> TRUE, err |-> NoErr]

\* every outcome of every remote call
DoAddFile == AddFileStep(Paths, AddOutcomes)
DoRemoveDocument == RemoveDocumentStep(RemoveOutcomes)
DoClearAll == ClearAllStep(ClearOutcomes)
AnalyzeTextStep(runs) == AnalyzeTextOn(Texts, runs)
DoAnalyzeText == AnalyzeTextStep(TextRuns)

\* one document, and a document service that answers every call
OneDoc == {<<"docs", 1>>}
\* every outcome of the vision model and of the assistant
DoAnalyze == AnalyzeStep(TextRuns, ImageRuns)
\* an assistant service that answers every call
Answered(runs) ==
    {r \in runs : r.adel /\ r.tool /\ r.create /\ r.thread = "ok" /\ r.tdel}
AnalyzeAnswered == AnalyzeStep(Answered(TextRuns), Answered(ImageRuns))
AnalyzeTextAnswered == AnalyzeTextStep(Answered(TextRuns))
AddFileOk == AddFileStep(OneDoc, {Uploaded})
AddFileUploaded == AddFileStep(Paths, {Uploaded})
ClearAllOk == ClearAllStep({AllDeleted})

\* ------------------------------------- CensorApp.__init__ and _start_work
\* sorted(self._files.keys()), by the order of the names
\* sorted(..., reverse=True)
RECURSIVE SortedDescending(_)
SortedDescending(S) ==
    IF S = {} THEN <<>>
    ELSE LET m == CHOOSE x \in S : \A y \in S : x >= y
         IN  <<m>> \o SortedDescending(S \ {m})

RECURSIVE Sorted(_)
Sorted(S) ==
    IF S = {} THEN <<>>
    ELSE LET m == CHOOSE x \in S : \A y \in S : x <= y
         IN  <<m>> \o Sorted(S \ {m})

GetLoadedSources(configured, e) == IF configured THEN Sorted(DOMAIN e.files) ELSE <<>>

\* ------------------- RAGEngine.get_loaded_sources, RAGEngine.document_count
\* one call of each; neither assigns anything
ReadSources ==
    /\ last' = [NoLast EXCEPT !.op = "read",
                              !.sources = GetLoadedSources(yandex, Eng),
                              !.count = DocumentCount(yandex, Eng)]
    /\ Commit(Eng)
    /\ UNCHANGED <<yandex, shellVars, libVars>>
RemoveDocumentOk == RemoveDocumentStep({[get |-> TRUE, del |-> TRUE]})

NoResult == [kind |-> "empty", job |-> 0]
NoCall == [op |-> "none", name |-> 0, fid |-> 0]

\* docs : loaded_docs, empty until _load_existing_docs fills it
ShellInit(shown, docs) ==
    /\ screen = shown
    /\ loaded_docs = docs
    /\ add_docs_btn = TRUE
    /\ is_analyzing = FALSE
    /\ stop_event = FALSE
    /\ results_text = NoResult
    /\ uploads = <<>>
    /\ analyses = <<>>
    /\ after_queue = <<>>
    /\ doc_cards = {<<docs[i], "workspace">> : i \in 1..Len(docs)}
    /\ ui_call = NoCall
    /\ stopped = {}

\* No call of _retry_call and no call of split_into_chunks is under way.
NoOutcome == [raised |-> FALSE, val |-> <<>>, err |-> <<>>, invocations |-> 0,
              sleeps |-> <<>>]
NoRetry == [pc |-> "idle", script |-> <<>>, max_retries |-> 0, base_delay |-> 0,
            result |-> NoOutcome]
NoChunker == [pc |-> "idle"]
NoLoader == [pc |-> "idle"]
LibIdle == retry = NoRetry /\ chunker = NoChunker /\ loader = NoLoader

vars == <<engineVars, shellVars, libVars>>
Init == EngineInit /\ ShellInit("welcome", <<>>) /\ LibIdle

\* Document management and text analysis, under every remote failure.
Next ==
    \/ DoAddFile
    \/ DoRemoveDocument
    \/ DoClearAll
    \/ DoAnalyzeText
Spec == Init /\ [][Next]_vars

\* RAGEngine.analyze on every input and under every failure of the vision
\* model and of the assistant, in a first session, between uploads of one
\* document and clear_all calls that succeed.
InitAnalyze == EngineFirstInit /\ ShellInit("welcome", <<>>) /\ LibIdle
NextAnalyze ==
    \/ AddFileOk
    \/ ClearAllOk
    \/ DoAnalyze
SpecAnalyze == InitAnalyze /\ [][NextAnalyze]_vars

\* RAGEngine.analyze on every input and under every failure of the vision
\* model, with an assistant service that answers.
NextDispatch ==
    \/ AddFileOk
    \/ ClearAllOk
    \/ AnalyzeAnswered
SpecDispatch == InitAnalyze /\ [][NextDispatch]_vars

\* add_file under every failure of its remote calls, in a first session,
\* between text analyses and clear_all calls that succeed.
NextAddFile ==
    \/ DoAddFile
    \/ ClearAllOk
    \/ DoAnalyzeText
SpecAddFile == InitAnalyze /\ [][NextAddFile]_vars

\* remove_document and clear_all under every failure of their remote calls,
\* in a first or a later session, between uploads and text analyses that
\* succeed.
NextDocs ==
    \/ AddFileUploaded
    \/ DoRemoveDocument
    \/ DoClearAll
    \/ AnalyzeTextAnswered
SpecDocs == Init /\ [][NextDocs]_vars

\* The list and the count of the tracked names, in a first or a later
\* session, between uploads, removals and clear_all calls that succeed.
NextRead ==
    \/ AddFileUploaded
    \/ RemoveDocumentOk
    \/ ClearAllOk
    \/ ReadSources
SpecRead == Init /\ [][NextRead]_vars

\* Every operation of the engine under every pattern of success and failure
\* of its remote calls, in a first or a later session; the failures carry
\* one error text, the user types one text, the assistant gives one reply,
\* the files come from one directory.
BriefAdd == {o \in AddOutcomes : o.err \in {NoErr, <<"boom">>}}
BriefRuns == {r \in TextRuns : r.reply # <<" ">>}
AddFileBrief == AddFileStep({"docs"} \X Names, BriefAdd)
AnalyzeTextBrief == AnalyzeTextOn({<<"x">>}, BriefRuns)
NextEngine ==
    \/ AddFileBrief
    \/ DoRemoveDocument
    \/ DoClearAll
    \/ AnalyzeTextBrief
SpecEngine == Init /\ [][NextEngine]_vars

\* Uploads, removals and clear_all calls whose remote calls all succeed,
\* after a restore whose remote calls all succeeded: the earlier session
\* left its files in its index, or left nothing.
InitRestored ==
    /\ Init
    /\ yandex
    /\ \A i \in 1..Len(last.calls) : last.calls[i].ok
    /\ rIndexes = {} => rFiles = {}
NextTracked ==
    \/ AddFileUploaded
    \/ RemoveDocumentOk
    \/ ClearAllOk
    \/ ReadSources
SpecTracked == InitRestored /\ [][NextTracked]_vars

\* ===================================================== the shell: CensorApp
\* The UI thread runs one handler or one posted callback at a time; while it
\* is inside an engine call (ui_call) it runs nothing else.  Worker threads
\* take their steps in between.  The session starts on the workspace, after
\* _start_work built the engine; the user may open the settings screen and
\* upload from there.  The cards with a remove button are those of the
\* documents restored at the start.
UiIdle == ui_call = NoCall
DocDir == "docs"
Batches == UNION {[1..n -> {DocDir} \X Names] : n \in 1..MaxBatchLen}
\* the selections of two files or more
LongBatches == UNION {[1..n -> {DocDir} \X Names] : n \in 2..MaxUploadLen}

\* a posted callback: its function, and the text, name or job, and batch it carries
Callback(cb, kind, n, b) == [cb |-> cb, kind |-> kind, n |-> n, b |-> b]
Post(q, c) == Append(q, c)
UploadWorker(batch, welcome) ==
    [pc |-> "loop", batch |-> batch, welcome |-> welcome]
AnalysisWorker ==
    [pc |-> "start", ran |-> NoAssistant, ranDirty |-> FALSE, result |-> "none"]

\* ------------------------------------------------- CensorApp._show_welcome
ShowWelcome ==
    /\ UiIdle
    /\ screen = "workspace"
    /\ screen' = "welcome"
    /\ UNCHANGED <<engineVars, loaded_docs, add_docs_btn, is_analyzing, stop_event,
                   results_text, uploads, analyses, after_queue, doc_cards,
                   ui_call, stopped,
                   libVars>>

\* -------------------------------------------- CensorApp._process_documents
\* The engine exists, so the handler lays out the loading cards, disables the
\* workspace's button when called from the workspace, and starts the worker.
ProcessDocuments(file_paths, welcome) ==
    /\ Len(uploads) + Len(analyses) < MaxWorkers
    /\ uploads' = Append(uploads, UploadWorker(file_paths, welcome))
    /\ add_docs_btn' = IF welcome THEN add_docs_btn ELSE FALSE
    /\ UNCHANGED <<engineVars, screen, loaded_docs, is_analyzing, stop_event,
                   results_text, analyses, after_queue, doc_cards, ui_call, stopped,
                   libVars>>

\* ---------------------------------------------- CensorApp._add_documents
AddDocumentsFrom(batches) ==
    /\ UiIdle
    /\ screen = "workspace"
    /\ add_docs_btn
    /\ \E paths \in batches : ProcessDocuments(paths, FALSE)
AddDocuments == AddDocumentsFrom(Batches)
AddLongBatch == AddDocumentsFrom(LongBatches)

\* ------------------------------------------ CensorApp._upload_docs_welcome
UploadDocsWelcome ==
    /\ UiIdle
    /\ screen = "welcome"
    /\ \E paths \in Batches : ProcessDocuments(paths, TRUE)

\* ------------------------------- _process_documents.worker: the for loop
\* At the loop head the worker either leaves the loop and posts
\* _finish_progress, or enters add_file and issues files.upload.
UploadLoop(b) ==
    /\ uploads[b].pc = "loop"
    /\ IF uploads[b].batch = <<>>
       THEN /\ uploads' = [uploads EXCEPT ![b].pc = "done"]
            /\ after_queue' = Post(after_queue,
                                   Callback("finish_progress", "none", 0, b))
       ELSE /\ uploads' = [uploads EXCEPT ![b].pc = "uploading"]
            /\ UNCHANGED after_queue
    /\ UNCHANGED <<engineVars, screen, loaded_docs, add_docs_btn, is_analyzing,
                   stop_event, results_text, analyses, doc_cards, ui_call, stopped,
                   libVars>>

\* add_file raised and the exception leaves the loop
UploadFailedStops(b) ==
    /\ uploads' = [uploads EXCEPT ![b].pc = "loop", ![b].batch = <<>>]
    /\ UNCHANGED after_queue

\* add_file raised: the worker takes the next file
UploadFailed(b) ==
    /\ uploads' = [uploads EXCEPT ![b].pc = "loop", ![b].batch = Tail(@)]
    /\ UNCHANGED after_queue

\* add_file, from the answer of files.upload to the indexing call
UploadReturns(b) ==
    /\ uploads[b].pc = "uploading"
    /\ \E ok \in Bool :
         IF ~ok
         THEN /\ UploadFailed(b)
              /\ UNCHANGED <<engineVars, loaded_docs>>
         ELSE LET name == Basename(Head(uploads[b].batch))
                  fid  == NewFileId(Eng)
              IN  /\ Cardinality(rFiles \cup {fid}) <= MaxFiles
                  /\ rFiles' = rFiles \cup {fid}
                  /\ files' = Put(files, name, fid)
                  /\ uploads' = [uploads EXCEPT
                                   ![b].pc = IF search_index = NoIndex
                                             THEN "creating" ELSE "extending"]
                  /\ UNCHANGED <<yandex, search_index, assistant, index_dirty,
                                 rIndexes, nAsst, changeMark, last, loaded_docs,
                                 after_queue>>
    /\ UNCHANGED <<screen, add_docs_btn, is_analyzing, stop_event, results_text,
                   analyses, doc_cards, ui_call, stopped,
                   libVars>>

\* add_file, from the answer of the create / extend operation to its return,
\* and the worker's bookkeeping of the returned name
IndexReturns(b) ==
    /\ uploads[b].pc \in {"creating", "extending"}
    /\ \E ok \in Bool :
         IF ~ok
         THEN /\ UploadFailed(b)
              /\ UNCHANGED <<engineVars, loaded_docs>>
         ELSE LET name == Basename(Head(uploads[b].batch))
                  idx  == NewIndexId(Eng)
              IN  /\ IF uploads[b].pc = "creating"
                     THEN /\ Cardinality(rIndexes \cup {idx}) <= MaxIndexes
                          /\ rIndexes' = rIndexes \cup {idx}
                          /\ search_index' = idx
                     ELSE UNCHANGED <<rIndexes, search_index>>
                  /\ index_dirty' = TRUE
                  /\ changeMark' = nAsst
                  /\ loaded_docs' = IF \E i \in 1..Len(loaded_docs) : loaded_docs[i] = name
                                    THEN loaded_docs ELSE Append(loaded_docs, name)
                  /\ uploads' = [uploads EXCEPT ![b].pc = "loop", ![b].batch = Tail(@)]
                  /\ UNCHANGED after_queue
                  /\ UNCHANGED <<yandex, files, assistant, rFiles, nAsst, last>>
    /\ UNCHANGED <<screen, add_docs_btn, is_analyzing, stop_event, results_text,
                   analyses, doc_cards, ui_call, stopped,
                   libVars>>

\* ----------------------------------------------------- CensorApp._remove_doc
\* The click on a card's remove button: remove_file pops the name and, when
\* it was tracked, asks the remote service to delete the file.
FinishRemoveDoc(name, at) ==
    /\ loaded_docs' = SelectSeq(loaded_docs, LAMBDA n : n # name)
    /\ doc_cards' = doc_cards \ {<<name, at>>}

RemoveDoc ==
    /\ UiIdle
    /\ \E card \in doc_cards :
         LET name == card[1] IN
         /\ card[2] = screen
         /\ IF name \in DOMAIN files
            THEN /\ files' = Drop(files, name)
                 /\ changeMark' = nAsst
                 /\ ui_call' = [op |-> "remove_file", name |-> name,
                                fid |-> files[name]]
                 /\ UNCHANGED <<loaded_docs, doc_cards>>
            ELSE /\ FinishRemoveDoc(name, screen)
                 /\ UNCHANGED <<files, changeMark, ui_call>>
    /\ UNCHANGED <<yandex, search_index, assistant, index_dirty, rIndexes, rFiles,
                   nAsst, last, screen, add_docs_btn, is_analyzing, stop_event,
                   results_text, uploads, analyses, after_queue, stopped,
                   libVars>>

\* the remote delete answers; the handler drops the name and the card
RemoveDocReturns ==
    /\ ui_call.op = "remove_file"
    /\ \E ok \in Bool : rFiles' = IF ok THEN rFiles \ {ui_call.fid} ELSE rFiles
    /\ FinishRemoveDoc(ui_call.name, screen)
    /\ ui_call' = NoCall
    /\ UNCHANGED <<yandex, search_index, files, assistant, index_dirty, rIndexes,
                   nAsst, changeMark, last, screen, add_docs_btn, is_analyzing,
                   stop_event, results_text, uploads, analyses, after_queue, stopped,
                   libVars>>

\* ------------------------------------------------- CensorApp._clear_all_docs
\* The user confirms; the UI thread enters clear_all.
ClearAllDocs ==
    /\ UiIdle
    /\ screen = "workspace"
    /\ ui_call' = [NoCall EXCEPT !.op = "clear_all"]
    /\ UNCHANGED <<engineVars, screen, loaded_docs, add_docs_btn, is_analyzing,
                   stop_event, results_text, uploads, analyses, after_queue,
                   doc_cards, stopped,
                   libVars>>

\* clear_all runs to its end; the handler empties the lists of both screens
ClearAllReturns ==
    /\ ui_call.op = "clear_all"
    /\ \E idel \in Bool :
       \E r \in {ClearAll(Eng, [adel |-> TRUE, idel |-> idel, fkeep |-> {}])} :
         Commit(r.e)
    /\ loaded_docs' = <<>>
    /\ doc_cards' = {}
    /\ ui_call' = NoCall
    /\ UNCHANGED <<yandex, last, screen, add_docs_btn, is_analyzing, stop_event,
                   results_text, uploads, analyses, after_queue, stopped,
                   libVars>>

\* -------------------------------------------------- CensorApp._run_analysis
\* The user has typed a text; the handler returns at once while an analysis
\* is marked as running.
RunAnalysis ==
    /\ UiIdle
    /\ screen = "workspace"
    /\ ~is_analyzing
    /\ Len(uploads) + Len(analyses) < MaxWorkers
    /\ is_analyzing' = TRUE
    /\ stop_event' = FALSE
    /\ results_text' = [kind |-> "waiting", job |-> 0]
    /\ analyses' = Append(analyses, AnalysisWorker)
    /\ UNCHANGED <<engineVars, screen, loaded_docs, add_docs_btn, uploads,
                   after_queue, doc_cards, ui_call, stopped,
                   libVars>>

\* ------------------------------------------------ CensorApp._finish_analysis
FinishAnalysis(kind, job) ==
    /\ is_analyzing' = FALSE
    /\ results_text' = [kind |-> kind, job |-> job]

\* -------------------------------------------------- CensorApp._stop_analysis
\* The stop button is enabled from _run_analysis to _finish_analysis.  The
\* analysis started last is stopped in flight when its worker has not ended.
StopAnalysis ==
    /\ UiIdle
    /\ screen = "workspace"
    /\ is_analyzing
    /\ stop_event' = TRUE
    /\ FinishAnalysis("stopped", 0)
    /\ stopped' = IF analyses[Len(analyses)].pc # "done"
                  THEN stopped \cup {Len(analyses)} ELSE stopped
    /\ UNCHANGED <<engineVars, screen, loaded_docs, add_docs_btn, uploads, analyses,
                   after_queue, doc_cards, ui_call,
                   libVars>>

\* ------------------------------------------- _run_analysis.worker, 1306-1311
\* The first test of the stop event, then rag_engine.analyze up to the end of
\* _ensure_assistant.  An exception leaves analyze and the worker posts it.
ShellEnsureOutcomes ==
    {AnyAgentOk, [AnyAgentOk EXCEPT !.create = FALSE, !.err = <<"boom">>]}

AnalysisStart(j) ==
    /\ analyses[j].pc = "start"
    /\ IF stop_event
       THEN /\ analyses' = [analyses EXCEPT ![j].pc = "done"]
            /\ after_queue' = Post(after_queue, Callback("finish_analysis", "canceled", j, 0))
            /\ UNCHANGED engineVars
       ELSE \E o \in ShellEnsureOutcomes :
            \E r \in {EnsureAssistant(Eng, o)} :
              /\ r.e.nAsst <= MaxAssistants
              /\ Commit(r.e)
              /\ UNCHANGED <<yandex, last>>
              /\ IF r.raised
                 THEN /\ analyses' = [analyses EXCEPT ![j].pc = "done"]
                      /\ after_queue' = Post(after_queue,
                                             Callback("finish_analysis", "error", j, 0))
                 ELSE /\ analyses' = [analyses EXCEPT ![j].pc = "thread"]
                      /\ UNCHANGED after_queue
    /\ UNCHANGED <<screen, loaded_docs, add_docs_btn, is_analyzing, stop_event,
                   results_text, uploads, doc_cards, ui_call, stopped,
                   libVars>>

\* ------------------------------------------------ YandexRAG.analyze, 289-294
\* The thread is created and written; self._assistant is read and run.  A
\* failed thread call, or an assistant that is gone, ends in the except clause.
AnalysisRun(j) ==
    /\ analyses[j].pc = "thread"
    /\ \E thread \in Bool :
         analyses' = IF ~thread \/ assistant = NoAssistant
                     THEN [analyses EXCEPT ![j].pc = "returning", ![j].result = "error"]
                     ELSE [analyses EXCEPT ![j].pc = "waiting", ![j].ran = assistant,
                                           ![j].ranDirty = index_dirty]
    /\ UNCHANGED <<engineVars, screen, loaded_docs, add_docs_btn, is_analyzing,
                   stop_event, results_text, uploads, after_queue, doc_cards,
                   ui_call, stopped,
                   libVars>>

\* ------------------------------------------------ YandexRAG.analyze, 295-305
AnalysisWait(j) ==
    /\ analyses[j].pc = "waiting"
    /\ \E res \in {"result", "error"} :
         analyses' = [analyses EXCEPT ![j].pc = "returning", ![j].result = res]
    /\ UNCHANGED <<engineVars, screen, loaded_docs, add_docs_btn, is_analyzing,
                   stop_event, results_text, uploads, after_queue, doc_cards,
                   ui_call, stopped,
                   libVars>>

\* ------------------------------------------- _run_analysis.worker, 1312-1315
\* analyze has returned a string: the second test of the stop event.
AnalysisReturn(j) ==
    /\ analyses[j].pc = "returning"
    /\ analyses' = [analyses EXCEPT ![j].pc = "done"]
    /\ after_queue' = Post(after_queue,
                           Callback("finish_analysis",
                                    IF stop_event THEN "canceled" ELSE analyses[j].result,
                                    j, 0))
    /\ UNCHANGED <<engineVars, screen, loaded_docs, add_docs_btn, is_analyzing,
                   stop_event, results_text, uploads, doc_cards, ui_call, stopped,
                   libVars>>

\* ------------------------------------------------ the callbacks of after(0)
\* _finish_analysis(text) and _finish_progress._do, run by the UI thread in
\* the order they were posted.  The callbacks that only redraw a card or a
\* label are left out.
RunCallback ==
    /\ UiIdle
    /\ after_queue # <<>>
    /\ after_queue' = Tail(after_queue)
    /\ LET c == Head(after_queue) IN
       CASE c.cb = "finish_analysis" ->
              /\ FinishAnalysis(c.kind, c.n)
              /\ UNCHANGED <<doc_cards, add_docs_btn>>
         [] OTHER ->
              /\ add_docs_btn' = IF uploads[c.b].welcome THEN add_docs_btn ELSE TRUE
              /\ UNCHANGED <<is_analyzing, results_text, doc_cards>>
    /\ UNCHANGED <<engineVars, screen, loaded_docs, stop_event, uploads, analyses,
                   ui_call, stopped,
                   libVars>>

\* ------------------------------------------------------------ the shell runs
InitShell ==
    /\ EngineInit
    /\ yandex
    /\ ShellInit("workspace", GetLoadedSources(yandex, Eng))
    /\ LibIdle

NextShell ==
    \/ ShowWelcome
    \/ AddDocuments
    \/ UploadDocsWelcome
    \/ RemoveDoc
    \/ RemoveDocReturns
    \/ ClearAllDocs
    \/ ClearAllReturns
    \/ RunAnalysis
    \/ StopAnalysis
    \/ RunCallback
    \/ \E b \in DOMAIN uploads : UploadLoop(b)
    \/ \E b \in DOMAIN uploads : UploadReturns(b)
    \/ \E b \in DOMAIN uploads : IndexReturns(b)
    \/ \E j \in DOMAIN analyses : AnalysisStart(j)
    \/ \E j \in DOMAIN analyses : AnalysisRun(j)
    \/ \E j \in DOMAIN analyses : AnalysisWait(j)
    \/ \E j \in DOMAIN analyses : AnalysisReturn(j)
SpecShell == InitShell /\ [][NextShell]_vars

\* The upload worker on selections of several files, in a first session,
\* started from the workspace, under every failure of add_file's remote calls.
InitUpload ==
    /\ EngineFirstInit
    /\ yandex
    /\ ShellInit("workspace", <<>>)
    /\ LibIdle
NextUpload ==
    \/ AddLongBatch
    \/ RunCallback
    \/ \E b \in DOMAIN uploads : UploadLoop(b)
    \/ \E b \in DOMAIN uploads : UploadReturns(b)
    \/ \E b \in DOMAIN uploads : IndexReturns(b)
SpecUpload == InitUpload /\ [][NextUpload]_vars

\* ============================================================== _retry_call
\* The engine is not constructed: the module-level helpers are called alone.
EngineOff ==
    /\ yandex = FALSE
    /\ search_index = NoIndex
    /\ files = EmptyMap
    /\ assistant = NoAssistant
    /\ index_dirty = TRUE
    /\ rIndexes = {}
    /\ rFiles = {}
    /\ nAsst = 0
    /\ changeMark = 0
    /\ last = NoLast

\* fn's outcomes: a value, the two rate-limit signatures, another error
FnOutcomes == {FnOk(<<"v">>), FnFail(<<"429", "quota">>),
               FnFail(<<"ResourceExhausted">>), FnFail(<<"boom">>)}
RetryBudgets == 0..MaxRetryBudget
BaseDelays == {1, RETRY_BASE_DELAY}

\* the arguments of one call: fn answers script[i] to its i-th invocation
InitRetry ==
    /\ EngineOff
    /\ ShellInit("welcome", <<>>)
    /\ chunker = NoChunker
    /\ loader = NoLoader
    /\ \E max_retries \in RetryBudgets, base_delay \in BaseDelays :
       \E script \in [1..(max_retries + 1) -> FnOutcomes] :
         retry = [pc |-> "called", script |-> script, max_retries |-> max_retries,
                  base_delay |-> base_delay, result |-> NoOutcome]

\* _retry_call runs to its return or to the exception it raises
RetryReturns ==
    /\ retry.pc = "called"
    /\ retry' = [retry EXCEPT
                   !.pc = "returned",
                   !.result = RetryCall(retry.script, retry.max_retries,
                                        retry.base_delay)]
    /\ UNCHANGED <<engineVars, shellVars, chunker, loader>>

NextRetry == RetryReturns
SpecRetry == InitRetry /\ [][NextRetry]_vars

\* ===================================== DocumentProcessor.split_into_chunks
\* A text is a sequence of characters; offsets count from 0 as in the code.
ChunkChars == {"a", " ", ".", "\n"}
Whitespace == {" ", "\n"}
Seps == << <<".", "\n">>, <<"\n">>, <<".", " ">>, <<"?", " ">>, <<"!", " ">> >>
Max(a, b) == IF a > b THEN a ELSE b

\* str.strip()
RECURSIVE PyLStrip(_)
PyLStrip(s) == IF s # <<>> /\ Head(s) \in Whitespace THEN PyLStrip(Tail(s)) ELSE s
RECURSIVE PyRStrip(_)
PyRStrip(s) ==
    IF s # <<>> /\ s[Len(s)] \in Whitespace
    THEN PyRStrip(SubSeq(s, 1, Len(s) - 1)) ELSE s
PyStrip(s) == PyRStrip(PyLStrip(s))

\* s[a:b]: a negative bound counts from the end, every bound is clamped
SliceBound(i, n) == IF i < 0 THEN Max(i + n, 0) ELSE Min(i, n)
Slice(s, a, b) ==
    LET lo == SliceBound(a, Len(s))
        hi == SliceBound(b, Len(s))
    IN  IF lo < hi THEN SubSeq(s, lo + 1, hi) ELSE <<>>

\* s.rfind(sep): the highest offset where sep occurs, -1 when there is none
RFind(s, sep) ==
    LET at == {i \in 0..(Len(s) - Len(sep)) : SubSeq(s, i + 1, i + Len(sep)) = sep}
    IN  IF at = {} THEN 0 - 1 ELSE CHOOSE i \in at : \A j \in at : j <= i

\* The for loop over the separators: the length the window is cut to by the
\* first separator whose last occurrence lies past 40% of chunk_size, or
\* NoCut.  "pos > chunk_size * 0.4" is compared in tenths.
NoCut == 0
\* the loop over the separators without the test "pos > chunk_size * 0.4":
\* any separator found in the window cuts it
SnapCutAnywhere(chunk_text, chunk_size) ==
    LET hits == {k \in 1..Len(Seps) : RFind(chunk_text, Seps[k]) >= 0}
    IN  IF hits = {} THEN NoCut
        ELSE LET k == CHOOSE x \in hits : \A y \in hits : x <= y
             IN  RFind(chunk_text, Seps[k]) + Len(Seps[k])

\* the loop over the separators taking, of those that qualify, the one that
\* occurs last in the window
SnapCutLatest(chunk_text, chunk_size) ==
    LET hits == {k \in 1..Len(Seps) : RFind(chunk_text, Seps[k]) * 10 > chunk_size * 4}
    IN  IF hits = {} THEN NoCut
        ELSE LET k == CHOOSE x \in hits : \A y \in hits :
                        RFind(chunk_text, Seps[x]) >= RFind(chunk_text, Seps[y])
             IN  RFind(chunk_text, Seps[k]) + Len(Seps[k])

SnapCut(chunk_text, chunk_size) ==
    LET hits == {k \in 1..Len(Seps) : RFind(chunk_text, Seps[k]) * 10 > chunk_size * 4}
    IN  IF hits = {} THEN NoCut
        ELSE LET k == CHOOSE x \in hits : \A y \in hits : x <= y
             IN  RFind(chunk_text, Seps[k]) + Len(Seps[k])

Chunk(source, chunk_id, clean) ==
    [id |-> <<source, "_chunk_", chunk_id>>, text |-> clean, source |-> source,
     chunk_index |-> chunk_id]

\* chunk_id += 1 moved out of "if clean": every window takes an index
NextChunkIdEveryWindow(chunk_id, clean) == chunk_id + 1

\* chunk_id += 1 inside "if clean"
NextChunkId(chunk_id, clean) == IF clean # <<>> THEN chunk_id + 1 ELSE chunk_id

\* start = end - self.chunk_overlap
NextStart(end, chunk_overlap) == end - chunk_overlap

\* the loop without its "if end == len(text): break"
LoopEndsAtStartOnly(start, end, n) == start >= n

\* the two break statements that close an iteration
LoopEnds(start, end, n) == start >= n \/ end = n

\* One pass of the while loop, lines 79-108.  windows and seen keep, for each
\* pass, the offsets [start, end), the offsets [lo, hi) of chunk_text in the
\* text, whether the window was cut at a separator, and the chunk it gave.
SplitIteration(c) ==
    LET n          == Len(c.text)
        end0       == Min(c.start + c.chunk_size, n)
        window     == Slice(c.text, c.start, end0)
        cut        == IF end0 < n THEN SnapCut(window, c.chunk_size) ELSE NoCut
        chunk_text == IF cut = NoCut THEN window ELSE Take(window, cut)
        end        == IF cut = NoCut THEN end0 ELSE c.start + Len(chunk_text)
        clean      == PyStrip(chunk_text)
        start2     == NextStart(end, c.chunk_overlap)
        lo         == SliceBound(c.start, n)
    IN  [c EXCEPT
           !.pc = IF LoopEnds(start2, end, n) THEN "done" ELSE "loop",
           !.start = start2,
           !.chunk_id = NextChunkId(@, clean),
           !.chunks = IF clean # <<>>
                      THEN Append(@, Chunk(c.source, c.chunk_id, clean)) ELSE @,
           !.windows = Append(@, [start |-> c.start, end |-> end, lo |-> lo,
                                  hi |-> lo + Len(chunk_text),
                                  snapped |-> cut # NoCut,
                                  chunk |-> IF clean # <<>>
                                            THEN Len(c.chunks) + 1 ELSE 0]),
           !.seen = @ \cup {c.start}]

\* the call: a processor's configuration, a text and a source label
Called(text, source, chunk_size, chunk_overlap) ==
    [pc |-> "called", raw |-> text, text |-> <<>>, source |-> source,
     chunk_size |-> chunk_size, chunk_overlap |-> chunk_overlap,
     start |-> 0, chunk_id |-> 0, chunks |-> <<>>, windows |-> <<>>, seen |-> {}]

ChunkTexts == UNION {[1..n -> ChunkChars] : n \in 0..MaxChunkText}
ChunkSizes == 1..MaxChunkSize
Sources == {"law.txt"}
\* 2500 characters without a separator, for the default configuration
LongText == [i \in 1..2500 |-> "a"]
\* the texts split with the default configuration: one letter, and 2500
\* characters with no separator or with '. ' at one offset
WithSep(p) == [i \in 1..2500 |-> IF i = p + 1 THEN "." ELSE IF i = p + 2 THEN " " ELSE "a"]
DefaultTexts == {LongText, <<"a">>} \cup {WithSep(p) : p \in {300, 500, 900, 1700}}
\* three letters, then any characters - the separators' among them -, then
\* two letters
SnapChars == ChunkChars \cup {"?", "!"}
SnapTexts == {<<"a", "a", "a">> \o mid \o <<"a", "a">> :
                  mid \in [1..MaxSnapMid -> SnapChars]}

InitChunks ==
    /\ EngineOff
    /\ ShellInit("welcome", <<>>)
    /\ retry = NoRetry
    /\ loader = NoLoader
    /\ \/ \E text \in ChunkTexts, source \in Sources, chunk_size \in ChunkSizes :
          \E chunk_overlap \in 0..(chunk_size - 1) :
            chunker = Called(text, source, chunk_size, chunk_overlap)
       \/ \E text \in DefaultTexts, source \in Sources :
            chunker = Called(text, source, DefaultChunkSize, DefaultChunkOverlap)
       \/ \E text \in SnapTexts, source \in Sources :
          \E chunk_overlap \in 0..(SnapChunkSize - 1) :
            chunker = Called(text, source, SnapChunkSize, chunk_overlap)

\* lines 70-76: the text is stripped; an empty text returns the empty list
SplitStart ==
    /\ chunker.pc = "called"
    /\ chunker' = [chunker EXCEPT
                     !.text = PyStrip(chunker.raw),
                     !.pc = IF PyStrip(chunker.raw) = <<>> THEN "done" ELSE "loop"]
    /\ UNCHANGED <<engineVars, shellVars, retry, loader>>

\* lines 78-108: one pass of the loop.  A pass that starts at an offset an
\* earlier pass started at repeats that pass, and is not taken again.
SplitLoop ==
    /\ chunker.pc = "loop"
    /\ chunker.start \notin chunker.seen
    /\ chunker' = SplitIteration(chunker)
    /\ UNCHANGED <<engineVars, shellVars, retry, loader>>

NextChunks == SplitStart \/ SplitLoop
SpecChunks == InitChunks /\ [][NextChunks]_vars

\* ========================================== DocumentProcessor.load_document
\* A file name is a sequence of characters: a stem, then no, one or two
\* extensions in any letter case.
Dot == "."
UpperOf == [p |-> "P", d |-> "D", f |-> "F", o |-> "O", c |-> "C", x |-> "X",
            t |-> "T"]
\* str.lower()
Lower(c) == IF \E l \in DOMAIN UpperOf : UpperOf[l] = c
            THEN CHOOSE l \in DOMAIN UpperOf : UpperOf[l] = c
            ELSE c
StrLower(str) == [i \in 1..Len(str) |-> Lower(str[i])]
\* the letter cases of a word
Cased(word) ==
    {[i \in 1..Len(word) |-> IF up[i] THEN UpperOf[word[i]] ELSE word[i]] :
        up \in [1..Len(word) -> Bool]}

\* PurePath.suffix: from the last dot of the name, when that dot is neither
\* the first nor the last character
RFindDot(name) ==
    LET dots == {i \in 1..Len(name) : name[i] = Dot}
    IN  IF dots = {} THEN 0 ELSE CHOOSE i \in dots : \A j \in dots : j <= i
Suffix(name) ==
    LET i == RFindDot(name)
    IN  IF 1 < i /\ i < Len(name) THEN SubSeq(name, i, Len(name)) ELSE <<>>

PdfExt == <<".", "p", "d", "f">>
DocxExt == <<".", "d", "o", "c", "x">>
TxtExt == <<".", "t", "x", "t">>

Words == {<<"p", "d", "f">>, <<"d", "o", "c", "x">>, <<"t", "x", "t">>,
          <<"d", "o", "c">>, <<"t", "x">>, <<"p", "d", "f", "x">>}
Stems == UNION {[1..n -> {"a"}] : n \in 0..MaxStemLen}
DocNames ==
    Stems
    \cup {st \o <<Dot>> \o w : st \in Stems, w \in UNION {Cased(x) : x \in Words}}
    \cup {st \o <<Dot>> \o w1 \o <<Dot>> \o w2 : st \in Stems, w1 \in Words, w2 \in Words}
DocPaths == Dirs \X DocNames

\* What the readers do: o.pdf, o.docx : PdfReader / Document read the file;
\* o.dec[enc] : what open(path, encoding=enc) and f.read() do.
DecodeErrors == {"UnicodeDecodeError", "LookupError"}
DecOutcomes == {"ok", "OSError"} \cup DecodeErrors
\* the order of the encodings reversed at the front
EncodingsSwapped == <<"cp1251", "utf-8", "latin-1">>

Encodings == <<"utf-8", "cp1251", "latin-1">>

Loaded(l, text, tried) ==
    [loader |-> l, raised |-> FALSE, err |-> "none", text |-> text, tried |-> tried]
LoadFailed(l, err, tried) ==
    [loader |-> l, raised |-> TRUE, err |-> err, text |-> <<>>, tried |-> tried]
NoLoadResult == Loaded("none", <<>>, <<>>)

\* --------------------------------------------- DocumentProcessor._load_txt
\* The text read with an encoding is marked with that encoding.
RECURSIVE LoadTxtFrom(_, _, _)
LoadTxtFrom(encs, o, tried) ==
    IF encs = <<>> THEN LoadFailed("txt", "unreadable_file", tried)
    ELSE LET enc == Head(encs)
         IN  IF o.dec[enc] = "ok"
             THEN Loaded("txt", <<enc>>, Append(tried, enc))
             ELSE IF o.dec[enc] \in DecodeErrors
             THEN LoadTxtFrom(Tail(encs), o, Append(tried, enc))
             ELSE LoadFailed("txt", o.dec[enc], Append(tried, enc))

LoadTxt(o) == LoadTxtFrom(Encodings, o, <<>>)

\* ------------------------- DocumentProcessor._load_pdf and ._load_docx
LoadPdf(o) ==
    IF o.pdf THEN Loaded("pdf", <<"pages">>, <<>>)
    ELSE LoadFailed("pdf", "PdfReadError", <<>>)
LoadDocx(o) ==
    IF o.docx THEN Loaded("docx", <<"paragraphs">>, <<>>)
    ELSE LoadFailed("docx", "PackageNotFoundError", <<>>)

\* ----------------------------------------- DocumentProcessor.load_document
\* load_document without the lower() of line 25
LoadDocumentCaseSensitive(file_path, o) ==
    LET ext == Suffix(Basename(file_path))
    IN  CASE ext = PdfExt -> LoadPdf(o)
          [] ext = DocxExt -> LoadDocx(o)
          [] ext = TxtExt -> LoadTxt(o)
          [] OTHER -> LoadFailed("none", "unsupported_format", <<>>)

LoadDocument(file_path, o) ==
    LET ext == StrLower(Suffix(Basename(file_path)))
    IN  CASE ext = PdfExt -> LoadPdf(o)
          [] ext = DocxExt -> LoadDocx(o)
          [] ext = TxtExt -> LoadTxt(o)
          [] OTHER -> LoadFailed("none", "unsupported_format", <<>>)

\* the outcomes of the reader the extension names; every reader answers
\* for a file no reader is named for
AllRead == [pdf |-> TRUE, docx |-> TRUE, dec |-> [enc \in {"utf-8", "cp1251", "latin-1"} |-> "ok"]]
Decodings == [{"utf-8", "cp1251", "latin-1"} -> DecOutcomes]
ReadOutcomes(file_path) ==
    LET ext == StrLower(Suffix(Basename(file_path)))
    IN  CASE ext = PdfExt -> {AllRead, [AllRead EXCEPT !.pdf = FALSE]}
          [] ext = DocxExt -> {AllRead, [AllRead EXCEPT !.docx = FALSE]}
          [] ext = TxtExt -> {[AllRead EXCEPT !.dec = d] : d \in Decodings}
          [] OTHER -> {AllRead}

LoaderCalled(fn, file_path, o) ==
    [pc |-> "called", fn |-> fn, path |-> file_path, o |-> o, result |-> NoLoadResult]

\* one call of load_document on any path, or of _load_txt on a text file
InitLoad ==
    /\ EngineOff
    /\ ShellInit("welcome", <<>>)
    /\ retry = NoRetry
    /\ chunker = NoChunker
    /\ \/ \E file_path \in DocPaths : \E o \in ReadOutcomes(file_path) :
            loader = LoaderCalled("load_document", file_path, o)
       \/ \E d \in Decodings :
            loader = LoaderCalled("_load_txt", <<"docs", <<"a">> \o TxtExt>>,
                                  [AllRead EXCEPT !.dec = d])

LoadDocumentReturns ==
    /\ loader.pc = "called"
    /\ loader.fn = "load_document"
    /\ loader' = [loader EXCEPT !.pc = "returned",
                                !.result = LoadDocument(loader.path, loader.o)]
    /\ UNCHANGED <<engineVars, shellVars, retry, chunker>>

LoadTxtReturns ==
    /\ loader.pc = "called"
    /\ loader.fn = "_load_txt"
    /\ loader' = [loader EXCEPT !.pc = "returned", !.result = LoadTxt(loader.o)]
    /\ UNCHANGED <<engineVars, shellVars, retry, chunker>>

NextLoad == LoadDocumentReturns \/ LoadTxtReturns
SpecLoad == InitLoad /\ [][NextLoad]_vars
Mutation(l) ==
    \/ l.op \in {"add_file", "clear_all"} /\ ~l.raised
    \/ l.op = "remove_file" /\ l.calls # <<>>      \* a tracked name was removed

\* C1: right after a successful add_file, after remove_file and after
\* clear_all, the dirty flag is set (stated for a remove_file that removed a
\* tracked name).
C1_DirtyAfterMutation ==
    (yandex /\ Mutation(last)) => index_dirty

\* C2: an analyze call that runs a query runs it on an assistant created
\* after the most recent change of the file set.
C2_RunsFreshAssistant ==
    (last.op = "analyze" /\ last.ran # NoAssistant) => last.ran.id > changeMark

\* C3: RAGEngine.analyze never raises, whatever the input and whichever
\* remote call fails.
C3_AnalyzeNeverRaises ==
    last.op = "analyze" => ~last.raised

\* C4: at most one remote search index carrying the application label
\* exists at any time.
C4_AtMostOneIndex ==
    Cardinality(rIndexes) <= 1

SelectsFlow(l) == (Truthy(l.image) /\ IsFile(l.image)) \/ Strip(l.text) # <<>>

\* C8 as stated: without credentials every analyze call, empty input
\* included, returns the not-configured message and makes no remote call.
C8_AlwaysNotConfigured ==
    (~yandex /\ last.op = "analyze") =>
        (last.tag = "not_configured" /\ last.calls = <<>>)

\* C8 amended: without credentials an analyze call makes no remote call and
\* does not raise; it returns the not-configured message when an existing
\* image or a non-blank text is given and the nothing-submitted message
\* otherwise.
C8_NotConfigured ==
    (~yandex /\ last.op = "analyze") =>
        /\ last.calls = <<>>
        /\ ~last.raised
        /\ last.tag = IF SelectsFlow(last) THEN "not_configured"
                      ELSE "nothing_submitted"

C8_Witness ==
    /\ ~yandex
    /\ last.op = "analyze"
    /\ last.image = "ad.png"
    /\ last.tag = "not_configured"

\* C9: analyze with blank text and no existing image returns the
\* nothing-submitted message, makes no remote call and leaves the assistant
\* and the dirty flag as they were.
C9_NothingSubmitted ==
    [][(last'.op = "analyze" /\ ~SelectsFlow(last')) =>
          /\ last'.tag = "nothing_submitted"
          /\ ~last'.raised
          /\ last'.calls = <<>>
          /\ assistant' = assistant
          /\ index_dirty' = index_dirty]_vars

C9_Witness ==
    /\ yandex
    /\ assistant # NoAssistant
    /\ index_dirty
    /\ last.op = "analyze"
    /\ last.text = <<" ">>
    /\ last.image = "missing.png"
    /\ last.tag = "nothing_submitted"

VisionFailed(v) == ~v.open \/ (v.script # <<>> /\ ~v.script[Len(v.script)].ok)
FailureOf(v) ==
    IF ~v.open THEN <<"cannot", "identify", "image">> ELSE v.script[Len(v.script)].err

\* C10: in the image flow, when the description of the image fails, analyze
\* returns the first ExcerptLen characters of the failure, calls nothing but
\* the vision model, and leaves the assistant and the dirty flag as they were.
C10_VisionFailureStopsFlow ==
    [][(/\ yandex
        /\ last'.op = "analyze"
        /\ Truthy(last'.image) /\ IsFile(last'.image)
        /\ VisionFailed(last'.vision)) =>
          /\ last'.tag = "vision_error"
          /\ ~last'.raised
          /\ last'.detail.text = Take(FailureOf(last'.vision), ExcerptLen)
          /\ last'.detail.text # <<>>
          /\ CallNames(last'.calls) \subseteq {"model.generate_content"}
          /\ assistant' = assistant
          /\ index_dirty' = index_dirty
          /\ nAsst' = nAsst]_vars

\* the retry wrapper gave up on a rate-limited vision model while an
\* assistant was held and the flag was set
C10_Witness ==
    /\ yandex
    /\ assistant # NoAssistant
    /\ index_dirty
    /\ last.op = "analyze"
    /\ last.tag = "vision_error"
    /\ Len(last.calls) = MAX_RETRIES + 1
    /\ IsRateLimit(last.detail.text)

\* the upload workers inside add_file, and those waiting for an index operation
InAddFile == {b \in DOMAIN uploads : uploads[b].pc \in {"uploading", "creating", "extending"}}
IndexOpsInFlight == {b \in DOMAIN uploads : uploads[b].pc \in {"creating", "extending"}}
UiCalls == IF ui_call.op \in {"remove_file", "clear_all"} THEN 1 ELSE 0

\* C5: whatever the user does, at most one of add_file / remove_file /
\* clear_all is executing on the engine, and no two index-create or
\* index-extend operations are in flight together.
C5_OneMutationAtATime ==
    /\ Cardinality(InAddFile) + UiCalls <= 1
    /\ Cardinality(IndexOpsInFlight) <= 1

\* C6: the result of an analysis the user stopped in flight is never
\* written to the results panel.
C6_StoppedResultNeverShown ==
    results_text.kind = "result" => results_text.job \notin stopped

\* C7: whenever analyze starts a run on an assistant, the dirty flag is
\* false at that moment.
C7_RunsWithCleanFlag ==
    \A j \in DOMAIN analyses :
        analyses[j].ran # NoAssistant => ~analyses[j].ranDirty

\* the image flow ran: the vision model was asked, or the image did not open
ImageFlowRan(l) ==
    /\ l.query.kind # "text"
    /\ \/ "model.generate_content" \in CallNames(l.calls)
       \/ ~l.vision.open
    /\ l.query.kind = "image" => l.query.text = (IF Strip(l.text) # <<>> THEN l.text ELSE <<>>)
\* the text-only flow ran: the query holds the text alone, no vision call
TextFlowRan(l) ==
    /\ l.query.kind = "text"
    /\ l.query.text = l.text
    /\ l.query.desc = <<>>
    /\ "model.generate_content" \notin CallNames(l.calls)

\* C11: analyze runs the image+text flow exactly when image_path is set and
\* names an existing file, with or without a text; otherwise a non-blank
\* text takes the text-only flow without a vision call, so that a path to a
\* missing file gives the query, the remote calls and the result of no path.
C11_ImageFileSelectsFlow ==
    /\ (yandex /\ last.op = "analyze") =>
          IF Truthy(last.image) /\ IsFile(last.image) THEN ImageFlowRan(last)
          ELSE IF Strip(last.text) # <<>> THEN TextFlowRan(last)
          ELSE last.query = NoQuery /\ last.calls = <<>>
    /\ \A text \in Texts, p \in ImagePaths \ ExistingFiles, o \in TextRuns :
          Analyze(yandex, Eng, text, p, o) = Analyze(yandex, Eng, text, "None", o)

\* a text with the path of a missing file was answered by the text-only flow
C11_Witness ==
    /\ yandex
    /\ last.op = "analyze"
    /\ last.image = "missing.png"
    /\ Strip(last.text) # <<>>
    /\ last.tag = "reply"
    /\ TextFlowRan(last)

\* C20: when the upload of add_file fails, add_file raises an error that
\* wraps the remote message, issues no index-create and no index-extend
\* call, and leaves the files, the index, the assistant and the dirty flag
\* (and the remote files and indexes) as they were.
C20_FailedUploadChangesNothing ==
    [][(/\ yandex
        /\ last'.op = "add_file"
        /\ last'.calls # <<>>
        /\ last'.calls[1] = Call("files.upload", FALSE)) =>
          /\ last'.raised
          /\ last'.tag = "upload_error"
          /\ last'.detail.text \in RemoteErrs
          /\ last'.calls = <<Call("files.upload", FALSE)>>
          /\ files' = files
          /\ search_index' = search_index
          /\ assistant' = assistant
          /\ index_dirty' = index_dirty
          /\ rFiles' = rFiles
          /\ rIndexes' = rIndexes]_vars

\* an upload failed while a document was tracked and the assistant was current
C20_Witness ==
    /\ last.op = "add_file"
    /\ last.tag = "upload_error"
    /\ last.name \notin DOMAIN files
    /\ files # EmptyMap
    /\ search_index # NoIndex
    /\ assistant # NoAssistant
    /\ ~index_dirty

\* the call of add_file reached the indexing call and that call failed
IndexingFailed(l) ==
    /\ l.op = "add_file"
    /\ Len(l.calls) = 2
    /\ l.calls[1] = Call("files.upload", TRUE)
    /\ ~l.calls[2].ok

\* C21: when the upload succeeds and the index create or extend fails,
\* add_file raises the indexing error; the uploaded remote file is not
\* deleted and the name keeps its new handle in files, so that the name list
\* and document_count include it; the held index is the one held before.
C21_IndexingFailureKeepsFile ==
    [][(yandex /\ IndexingFailed(last')) =>
          /\ last'.raised
          /\ last'.tag = "indexing_error"
          /\ last'.calls[2].c = (IF search_index = NoIndex
                                 THEN "search_indexes.create" ELSE "index.add_files")
          /\ last'.name \in DOMAIN files'
          /\ files'[last'.name] \in rFiles' \ rFiles
          /\ rFiles \subseteq rFiles'
          /\ \A n \in DOMAIN files \ {last'.name} :
                n \in DOMAIN files' /\ files'[n] = files[n]
          /\ \E i \in 1..Len(GetLoadedSources(yandex', Eng')) :
                GetLoadedSources(yandex', Eng')[i] = last'.name
          /\ DocumentCount(yandex', Eng') = Cardinality(DOMAIN files \cup {last'.name})
          /\ search_index' = search_index
          /\ rIndexes' = rIndexes]_vars

\* the extension of a held index failed for a name that was not tracked
C21_Witness ==
    /\ IndexingFailed(last)
    /\ last.calls[2].c = "index.add_files"
    /\ search_index # NoIndex
    /\ Cardinality(DOMAIN files) = 2

\* analyze reached _ensure_assistant
EnsureCalled(l) ==
    /\ l.op = "analyze"
    /\ l.tag \notin {"not_configured", "nothing_submitted", "vision_error"}
\* the calls of l from _ensure_assistant on: those after the vision model's
EnsureCalls(l) ==
    SelectSeq(l.calls, LAMBDA c : c.c # "model.generate_content")
Created(l) == Call("assistants.create", TRUE) \in {l.calls[i] : i \in 1..Len(l.calls)}

\* C30: _ensure_assistant called with the dirty flag set and an assistant
\* held attempts the remote delete of that assistant first and drops the
\* local handle before it creates the new one, also when the delete fails;
\* when it returns normally the flag is clear and the assistant held is the
\* new one, with a search tool for the held index when there is one and with
\* no tool otherwise.
C30_DirtyAssistantReplaced ==
    [][(/\ yandex
        /\ assistant # NoAssistant
        /\ index_dirty
        /\ EnsureCalled(last')) =>
          /\ EnsureCalls(last') # <<>>
          /\ EnsureCalls(last')[1].c = "assistant.delete"
          /\ \A i \in 2..Len(EnsureCalls(last')) :
                EnsureCalls(last')[i].c # "assistant.delete"
          /\ IF Created(last')
             THEN /\ ~index_dirty'
                  /\ assistant' # NoAssistant
                  /\ assistant'.id = nAsst'
                  /\ assistant'.id > assistant.id
                  /\ assistant'.tool = search_index
             ELSE /\ assistant' = NoAssistant
                  /\ last'.raised]_vars

\* the old assistant's delete failed and the new assistant was created
C30_Witness ==
    /\ EnsureCalled(last)
    /\ EnsureCalls(last)[1] = Call("assistant.delete", FALSE)
    /\ Created(last)
    /\ assistant.id >= 2
    /\ assistant.tool # NoIndex
    /\ ~index_dirty

\* C25: every YandexRAG.analyze call that creates a remote thread attempts
\* the delete of that thread before it returns, on the success path and when
\* the write, the run or the wait fails.
C25_ThreadAlwaysDeleted ==
    (/\ last.op = "analyze"
     /\ Call("threads.create", TRUE) \in {last.calls[i] : i \in 1..Len(last.calls)})
    => "thread.delete" \in CallNames(last.calls)

\* C22: remove_document returns normally for every name and every outcome of
\* the remote delete, and afterwards the name is not tracked; the other
\* names keep their file ids; for a name that was not tracked no remote call
\* is made and files is unchanged.
C22_RemoveNeverRaises ==
    [][last'.op = "remove_file" =>
         /\ ~last'.raised
         /\ last'.name \notin DOMAIN files'
         /\ DOMAIN files' = DOMAIN files \ {last'.name}
         /\ \A n \in DOMAIN files' : files'[n] = files[n]
         /\ last'.name \notin DOMAIN files =>
               last'.calls = <<>> /\ files' = files]_vars
\* a tracked name was removed although the remote delete failed
C22_Witness ==
    /\ last.op = "remove_file" /\ ~last.raised /\ yandex
    /\ \E i \in 1..Len(last.calls) : ~last.calls[i].ok
    /\ last.name \notin DOMAIN files /\ files # EmptyMap

Deletes(l, c) == SelectSeq(l.calls, LAMBDA x : x.c = c)
\* C23: clear_all returns normally and leaves no assistant, no index, no
\* tracked file and the dirty flag set, whichever deletes fail; one delete is
\* attempted for the held assistant, one for the held index and one for
\* every tracked file.
C23_ClearAllClearsEverything ==
    [][last'.op = "clear_all" =>
         /\ ~last'.raised
         /\ assistant' = NoAssistant /\ search_index' = NoIndex
         /\ files' = EmptyMap /\ index_dirty'
         /\ Len(Deletes(last', "assistant.delete")) =
               (IF yandex /\ assistant # NoAssistant THEN 1 ELSE 0)
         /\ Len(Deletes(last', "index.delete")) =
               (IF yandex /\ search_index # NoIndex THEN 1 ELSE 0)
         /\ Len(Deletes(last', "file.delete")) = Cardinality(DOMAIN files)
         /\ Len(last'.calls) = Len(Deletes(last', "assistant.delete"))
               + Len(Deletes(last', "index.delete"))
               + Len(Deletes(last', "file.delete"))]_vars
\* the assistant's, the index's and the first file's delete failed and the
\* second file's delete was still made
C23_Witness ==
    /\ last.op = "clear_all"
    /\ last.calls = <<Call("assistant.delete", FALSE), Call("index.delete", FALSE),
                      Call("file.delete", FALSE), Call("file.delete", TRUE)>>
    /\ files = EmptyMap /\ assistant = NoAssistant /\ search_index = NoIndex

\* C26: the restore at construction never raises and leaves the dirty flag
\* set and no assistant held, whether a labelled index was adopted, none was
\* found, or a remote call failed part-way through.
C26_RestoreLeavesDirty ==
    last.op = "init" =>
        /\ ~last.raised
        /\ yandex => /\ index_dirty
                     /\ assistant = NoAssistant
                     /\ last.calls # <<>>
\* an index was adopted and the listing of its files failed
C26_Witness ==
    /\ last.op = "init" /\ yandex /\ search_index # NoIndex
    /\ Call("index.list_files", FALSE) \in {last.calls[i] : i \in 1..Len(last.calls)}
    /\ index_dirty /\ assistant = NoAssistant

\* C27: get_loaded_sources returns exactly the tracked names, in ascending
\* order and without duplicates; document_count is the length of that list,
\* in every state; neither call changes files, the index, the assistant or
\* the dirty flag; without a knowledge service they return [] and 0.
C27_SourcesSortedAndCounted ==
    [][/\ DocumentCount(yandex, Eng)' = Len(GetLoadedSources(yandex, Eng)')
       /\ last'.op = "read" =>
            /\ {last'.sources[i] : i \in 1..Len(last'.sources)}
                  = (IF yandex THEN DOMAIN files ELSE {})
            /\ \A i, j \in 1..Len(last'.sources) :
                  i < j => last'.sources[i] < last'.sources[j]
            /\ last'.count = Len(last'.sources)
            /\ UNCHANGED <<files, search_index, assistant, index_dirty>>
            /\ ~yandex => last'.sources = <<>> /\ last'.count = 0]_vars
\* two names are tracked and were listed
C27_Witness ==
    /\ last.op = "read" /\ yandex /\ last.count = 2
    /\ Len(last.sources) = 2 /\ last.sources[1] < last.sources[2]
    /\ DOMAIN files = {last.sources[1], last.sources[2]}

\* the worker is inside add_file
InAddFileCall(w) == w.pc \in {"uploading", "creating", "extending"}
\* C24: an upload worker takes the files of its batch from the head, one at
\* a time: a file leaves the batch only when its add_file call returned or
\* raised, the next call starts at the loop head for the file then at the
\* head, a call that ends - either way - leaves every later file in the batch
\* to be attempted, and the worker finishes only when no file is left.
C24_BatchInOrder ==
    [][\A b \in DOMAIN uploads :
         /\ b \in DOMAIN uploads'
         /\ uploads'[b].batch # uploads[b].batch =>
               /\ InAddFileCall(uploads[b])
               /\ uploads'[b].pc = "loop"
               /\ uploads'[b].batch = Tail(uploads[b].batch)
         /\ (InAddFileCall(uploads[b]) /\ ~InAddFileCall(uploads'[b])) =>
               /\ uploads'[b].pc = "loop"
               /\ uploads'[b].batch = Tail(uploads[b].batch)
         /\ (~InAddFileCall(uploads[b]) /\ InAddFileCall(uploads'[b])) =>
               /\ uploads[b].pc = "loop" /\ uploads[b].batch # <<>>
               /\ uploads'[b].pc = "uploading"
               /\ uploads'[b].batch = uploads[b].batch
         /\ uploads'[b].pc = "done" => uploads'[b].batch = <<>>]_vars
\* the upload of the first file of the session's first batch failed and the
\* worker is uploading the next file
C24_Witness ==
    /\ Len(uploads) = 1 /\ uploads[1].pc = "uploading"
    /\ Len(uploads[1].batch) = 1 /\ rFiles = {} /\ files = EmptyMap

EnsureNames == {"assistant.delete", "tools.search_index", "assistants.create"}
\* C31: when an assistant is held and the dirty flag is clear,
\* _ensure_assistant makes no remote call and leaves the assistant, the
\* index, the files and the flag as they were; an analysis that follows
\* another with no operation in between runs on the same assistant.
C31_CheapPathChangesNothing ==
    [][/\ (yandex /\ assistant # NoAssistant /\ ~index_dirty /\ EnsureCalled(last')) =>
            /\ \A i \in 1..Len(last'.calls) : last'.calls[i].c \notin EnsureNames
            /\ UNCHANGED <<assistant, search_index, files, index_dirty, nAsst>>
            /\ last'.ran \in {NoAssistant, assistant}
       /\ (/\ last.op = "analyze" /\ last.ran # NoAssistant
           /\ last'.op = "analyze" /\ last'.ran # NoAssistant) =>
            last'.ran = last.ran]_vars
\* an analysis ran on the assistant an earlier call had created
C31_Witness ==
    /\ last.op = "analyze" /\ last.ran # NoAssistant /\ last.ran = assistant
    /\ last.calls # <<>> /\ last.calls[1].c = "threads.create"
    /\ ~index_dirty

Made(l, c, ok) == Call(c, ok) \in {l.calls[i] : i \in 1..Len(l.calls)}
Asked(l, c) == Made(l, c, TRUE) \/ Made(l, c, FALSE)
\* C32: add_file asks for a new index only when no index is held and
\* otherwise extends the held one; the held index changes only when a create
\* went through or when clear_all ran; a failed create leaves no index held,
\* and the first add_file that succeeds after clear_all creates a new index.
C32_CreateOnlyWithoutIndex ==
    [][/\ (yandex /\ last'.op = "add_file") =>
            /\ Asked(last', "search_indexes.create") => search_index = NoIndex
            /\ Asked(last', "index.add_files") =>
                  search_index # NoIndex /\ search_index' = search_index
            /\ Made(last', "files.upload", TRUE) =>
                  IF search_index = NoIndex
                  THEN Asked(last', "search_indexes.create")
                  ELSE Asked(last', "index.add_files")
            /\ Made(last', "search_indexes.create", FALSE) => search_index' = NoIndex
            /\ Made(last', "search_indexes.create", TRUE) =>
                  /\ search_index' # NoIndex
                  /\ search_index' \notin rIndexes
                  /\ search_index' \in rIndexes'
       /\ search_index' # search_index =>
            \/ last'.op = "clear_all" /\ search_index' = NoIndex
            \/ last'.op = "add_file" /\ Made(last', "search_indexes.create", TRUE)
       /\ (yandex /\ last.op = "clear_all" /\ last'.op = "add_file" /\ ~last'.raised) =>
            Made(last', "search_indexes.create", TRUE)]_vars
\* an index was created while the one held before clear_all is still alive
C32_Witness ==
    /\ last.op = "add_file" /\ ~last.raised
    /\ Made(last, "search_indexes.create", TRUE)
    /\ search_index \in rIndexes /\ Cardinality(rIndexes) = 2

\* C36: whenever the dirty flag is clear an assistant is held, and it was
\* created with a search tool for the index held now, or with no tool when
\* no index is held.
C36_CleanMeansCurrentTool ==
    (yandex /\ ~index_dirty) =>
        /\ assistant # NoAssistant
        /\ assistant.tool = search_index
\* an index is held and the assistant was created for it
C36_Witness ==
    /\ yandex /\ ~index_dirty /\ assistant # NoAssistant
    /\ search_index # NoIndex /\ assistant.tool = search_index
    /\ last.op = "analyze"

CreationFailed(l) ==
    /\ l.op = "analyze"
    /\ Made(l, "tools.search_index", FALSE) \/ Made(l, "assistants.create", FALSE)
ThreadNames == {"threads.create", "thread.write", "assistant.run", "run.wait",
                "thread.delete"}
\* C39: when the search tool or the assistant cannot be created, no
\* assistant is held afterwards and the dirty flag is still set; with no
\* assistant held the next _ensure_assistant attempts the creation; an
\* analysis makes its thread calls only with an assistant held.
C39_FailedCreationRetried ==
    [][/\ CreationFailed(last') =>
            /\ assistant' = NoAssistant
            /\ index_dirty'
            /\ last'.ran = NoAssistant
            /\ CallNames(last'.calls) \cap ThreadNames = {}
       /\ (yandex /\ assistant = NoAssistant /\ EnsureCalled(last')) =>
            \/ Made(last', "tools.search_index", FALSE)
            \/ Asked(last', "assistants.create")
       /\ (last'.op = "analyze" /\ CallNames(last'.calls) \cap ThreadNames # {}) =>
            /\ assistant' # NoAssistant
            /\ last'.ran \in {NoAssistant, assistant'}]_vars
\* the old assistant was deleted and the creation of the new one failed
C39_Witness ==
    /\ CreationFailed(last)
    /\ last.calls[1].c = "assistant.delete"
    /\ Made(last, "assistants.create", FALSE)
    /\ assistant = NoAssistant /\ index_dirty

\* C33: when every remote call succeeds, the file ids held in files are
\* exactly the live remote files: each tracked name maps to a live file of
\* its own and no live file is untracked.
C33_TrackedAreLive ==
    /\ Range(files) = rFiles
    /\ \A n1, n2 \in DOMAIN files : files[n1] = files[n2] => n1 = n2

\* ------------------------------------------------------------- _retry_call
\* the error text carries a rate-limit signature
RateLimited(x) == ~x.ok /\ (\E i \in 1..Len(x.err) : x.err[i] \in {"429", "ResourceExhausted"})
\* fn fails with a rate-limit error on each of its first k invocations
RateLimitedFirst(k) == \A i \in 1..k : RateLimited(retry.script[i])

\* C12: for every k in 0..max_retries, when fn fails with a rate-limit error
\* on its first k invocations and then succeeds, _retry_call returns fn's
\* value after exactly k+1 invocations and k sleeps, the i-th sleep
\* (i = 0..k-1) lasting base_delay * 2^i.
C12_ReturnsAfterBackoff ==
    retry.pc = "returned" =>
      \A k \in 0..retry.max_retries :
        RateLimitedFirst(k) /\ retry.script[k + 1].ok =>
          /\ ~retry.result.raised
          /\ retry.result.val = retry.script[k + 1].val
          /\ retry.result.invocations = k + 1
          /\ retry.result.sleeps = [i \in 1..k |-> retry.base_delay * 2^(i - 1)]

\* fn succeeds at its last permitted invocation, after max_retries >= 2 sleeps
C12_Witness ==
    /\ retry.pc = "returned"
    /\ retry.max_retries >= 2
    /\ retry.base_delay = RETRY_BASE_DELAY
    /\ RateLimitedFirst(retry.max_retries)
    /\ retry.script[retry.max_retries + 1].ok
    /\ ~retry.result.raised
    /\ Len(retry.result.sleeps) = retry.max_retries

\* C13: an invocation of fn that raises an error without a rate-limit
\* signature makes _retry_call re-raise that error at once: no sleep follows
\* and fn is not invoked again; when it is the first invocation, fn is
\* invoked exactly once.
C13_OtherErrorsNotRetried ==
    retry.pc = "returned" =>
      \A k \in 1..(retry.max_retries + 1) :
        /\ RateLimitedFirst(k - 1)
        /\ ~retry.script[k].ok
        /\ ~RateLimited(retry.script[k])
        => /\ retry.result.raised
           /\ retry.result.err = retry.script[k].err
           /\ retry.result.invocations = k
           /\ Len(retry.result.sleeps) = k - 1

\* the first invocation fails without a rate-limit signature, with retries left
C13_Witness ==
    /\ retry.pc = "returned"
    /\ retry.max_retries >= 1
    /\ ~retry.script[1].ok /\ ~RateLimited(retry.script[1])
    /\ retry.result.raised
    /\ retry.result.invocations = 1
    /\ retry.result.sleeps = <<>>

\* C14: when every invocation of fn fails with a rate-limit error,
\* _retry_call invokes fn exactly max_retries + 1 times, sleeps exactly
\* max_retries times and raises the error of the last invocation; under
\* every failure pattern it ends after at most max_retries + 1 invocations.
C14_GivesUpAfterBudget ==
    retry.pc = "returned" =>
      /\ retry.result.invocations <= retry.max_retries + 1
      /\ RateLimitedFirst(retry.max_retries + 1) =>
            /\ retry.result.raised
            /\ retry.result.invocations = retry.max_retries + 1
            /\ Len(retry.result.sleeps) = retry.max_retries
            /\ retry.result.err = retry.script[retry.max_retries + 1].err

\* the budget is used up, and the last error differs from the one before it
C14_Witness ==
    /\ retry.pc = "returned"
    /\ retry.max_retries >= 2
    /\ RateLimitedFirst(retry.max_retries + 1)
    /\ retry.script[retry.max_retries + 1].err # retry.script[retry.max_retries].err
    /\ retry.result.raised
    /\ retry.result.invocations = retry.max_retries + 1
\* ------------------------------------------------------- split_into_chunks
Splitting == chunker.pc \in {"loop", "done"}
Returned == chunker.pc = "done"
Scenario == Splitting /\ chunker.raw = LongText
WindowStarts == [i \in 1..Len(chunker.windows) |-> chunker.windows[i].start]

\* C15: split_into_chunks terminates for every non-empty text and every
\* chunk_overlap < chunk_size.  A pass of the loop is a function of its start
\* offset, so the call terminates exactly when no pass starts at an offset
\* an earlier pass started at.
C15_Terminates ==
    chunker.pc = "loop" => chunker.start \notin chunker.seen

C17_SnappedChunkNotShort ==
    Splitting =>
      \A i \in 1..Len(chunker.windows) :
        LET w == chunker.windows[i] IN
        (w.snapped /\ w.chunk # 0) =>
            Len(chunker.chunks[w.chunk].text) * 10 >= chunker.chunk_size * 4

\* the call has made every pass it will ever make: it returned, or it came
\* back to a start offset and repeats its passes from there
Settled == Returned \/ (chunker.pc = "loop" /\ chunker.start \in chunker.seen)

\* C18: for every non-empty text and every 0 <= chunk_overlap < chunk_size,
\* every offset of the stripped text lies in the window [start, end) of a
\* pass of the loop, and every character that is not whitespace lies in the
\* text of an emitted chunk.
C18_ChunksCoverText ==
    Settled =>
      \A p \in 0..(Len(chunker.text) - 1) :
        /\ \E i \in 1..Len(chunker.windows) :
              chunker.windows[i].start <= p /\ p < chunker.windows[i].end
        /\ chunker.text[p + 1] \notin Whitespace =>
              \E i \in 1..Len(chunker.windows) :
                LET w == chunker.windows[i] IN
                /\ w.chunk # 0
                /\ w.lo <= p /\ p < w.hi
                /\ \E q \in 1..Len(chunker.chunks[w.chunk].text) :
                      chunker.chunks[w.chunk].text[q] = chunker.text[p + 1]

\* C19: the chunks carry the chunk_index values 0, 1, ..., n-1 in list
\* order, each id is "<source>_chunk_<chunk_index>", and no chunk has an
\* empty text, also when windows were discarded as whitespace-only; an empty
\* or whitespace-only input returns the empty list.
C19_SequentialIndexes ==
    /\ Splitting =>
         \A i \in 1..Len(chunker.chunks) :
           /\ chunker.chunks[i].chunk_index = i - 1
           /\ chunker.chunks[i].id = <<chunker.source, "_chunk_", i - 1>>
           /\ chunker.chunks[i].source = chunker.source
           /\ chunker.chunks[i].text # <<>>
    /\ (Splitting /\ \A i \in 1..Len(chunker.raw) : chunker.raw[i] \in Whitespace) =>
         (Returned /\ chunker.chunks = <<>> /\ chunker.windows = <<>>)

\* a window was discarded as whitespace-only and a chunk was emitted after it
C19_Witness ==
    /\ Returned
    /\ \E i \in 1..Len(chunker.windows) :
         /\ chunker.windows[i].chunk = 0
         /\ \E j \in (i + 1)..Len(chunker.windows) : chunker.windows[j].chunk # 0

\* the separators in their order of priority
SepOrder == << <<".", "\n">>, <<"\n">>, <<".", " ">>, <<"?", " ">>, <<"!", " ">> >>
\* the window of pass i before it is cut, and the separators whose last
\* occurrence in it lies past 40% of chunk_size
Uncut(i) ==
    Slice(chunker.text, chunker.windows[i].start,
          Min(chunker.windows[i].start + chunker.chunk_size, Len(chunker.text)))
Qualifying(i) ==
    {k \in 1..5 : RFind(Uncut(i), SepOrder[k]) * 10 > chunker.chunk_size * 4}
ReachesEnd(i) ==
    chunker.windows[i].start + chunker.chunk_size >= Len(chunker.text)
\* C35: a window that does not reach the end of the text is cut just after
\* the last occurrence of the first separator, in the order '.\n', '\n',
\* '. ', '? ', '! ', whose last occurrence lies at an index greater than
\* 0.4 * chunk_size, whatever separators of lower priority occur later; a
\* window no separator qualifies for, and a window that reaches the end of
\* the text, is not shortened.
C35_FirstQualifyingSeparator ==
    Splitting =>
      \A i \in 1..Len(chunker.windows) :
        LET w == chunker.windows[i] IN
        IF ~ReachesEnd(i) /\ Qualifying(i) # {}
        THEN LET k == CHOOSE x \in Qualifying(i) : \A y \in Qualifying(i) : x <= y
             IN  /\ w.snapped
                 /\ w.hi - w.lo = RFind(Uncut(i), SepOrder[k]) + Len(SepOrder[k])
                 /\ w.end = w.start + (w.hi - w.lo)
        ELSE /\ ~w.snapped
             /\ w.hi - w.lo = Len(Uncut(i))
             /\ w.end = Min(w.start + chunker.chunk_size, Len(chunker.text))
\* a window was cut after a newline although '. ' occurs later in it
C35_Witness ==
    /\ Splitting
    /\ \E i \in 1..Len(chunker.windows) :
         /\ chunker.windows[i].snapped
         /\ Qualifying(i) = {2, 3}
         /\ RFind(Uncut(i), <<".", " ">>) > RFind(Uncut(i), <<"\n">>)
         /\ chunker.windows[i].hi - chunker.windows[i].lo = RFind(Uncut(i), <<"\n">>) + 1

\* chunk_overlap is at most 40% of chunk_size: the default configuration is one
Gentle == chunker.chunk_overlap * 10 <= chunker.chunk_size * 4
\* the value of start after pass i
StartAfter(i) ==
    IF i < Len(chunker.windows) THEN chunker.windows[i + 1].start ELSE chunker.start
\* C38 as stated: with 0 <= chunk_overlap <= 0.4 * chunk_size the start
\* offset is never negative and every pass of the loop leaves it strictly
\* greater than it found it.
C38_StartNeverDecreases ==
    (Splitting /\ Gentle) =>
        /\ chunker.start >= 0
        /\ \A i \in 1..Len(chunker.windows) : StartAfter(i) > chunker.windows[i].start

\* C38 amended: with 0 <= chunk_overlap <= 0.4 * chunk_size every pass of
\* the loop starts at an offset that is not negative and is strictly greater
\* than the offset the pass before it started at, so no pass repeats; the
\* value a pass that reaches the end of the text leaves in start is not
\* used by any pass.
C38_PassStartsIncrease ==
    (Splitting /\ Gentle) =>
        /\ \A i \in 1..Len(chunker.windows) :
             /\ chunker.windows[i].start >= 0
             /\ i > 1 => chunker.windows[i].start > chunker.windows[i - 1].start
        /\ chunker.pc = "loop" =>
             /\ chunker.start >= 0
             /\ chunker.start \notin chunker.seen
             /\ chunker.windows # <<>> =>
                   chunker.start > chunker.windows[Len(chunker.windows)].start
        /\ chunker.pc = "done" =>
             \/ chunker.windows = <<>>
             \/ chunker.windows[Len(chunker.windows)].end = Len(chunker.text)
             \/ chunker.start >= Len(chunker.text)
\* a call with an overlap made three passes or more, one of them cut at a
\* separator
C38_Witness ==
    /\ Gentle /\ Returned /\ chunker.chunk_overlap > 0
    /\ Len(chunker.windows) >= 3
    /\ \E i \in 1..Len(chunker.windows) : chunker.windows[i].snapped

\* ----------------------------------------------------------- load_document
LoadReturned(fn) == loader.pc = "returned" /\ loader.fn = fn
LowerExt == StrLower(Suffix(loader.path[2]))
\* C28: load_document invokes the reader named by the lower-cased extension
\* of the file name - .pdf, .docx or .txt in any letter case - and returns
\* or raises what that reader does; for every other extension, and for a
\* name without one, it raises the unsupported-format error and invokes no
\* reader.
C28_DispatchByLowerExtension ==
    LoadReturned("load_document") =>
        /\ loader.result.loader =
              (CASE LowerExt = <<".", "p", "d", "f">> -> "pdf"
                 [] LowerExt = <<".", "d", "o", "c", "x">> -> "docx"
                 [] LowerExt = <<".", "t", "x", "t">> -> "txt"
                 [] OTHER -> "none")
        /\ loader.result.loader = "none" <=>
              /\ loader.result.raised
              /\ loader.result.err = "unsupported_format"
        /\ loader.result.loader = "pdf" => loader.result.raised = ~loader.o.pdf
        /\ loader.result.loader = "docx" => loader.result.raised = ~loader.o.docx
        /\ loader.result.loader = "txt" => loader.result.tried # <<>>
        /\ loader.result.loader # "txt" => loader.result.tried = <<>>
\* a text file whose extension mixes the letter cases was read
C28_Witness ==
    /\ LoadReturned("load_document")
    /\ Suffix(loader.path[2]) = <<".", "T", "x", "T">>
    /\ loader.result.loader = "txt" /\ ~loader.result.raised

\* ---------------------------------------------------------------- _load_txt
\* C29: _load_txt tries utf-8, cp1251 and latin-1 in that order, stops at
\* the first that decodes and returns its text, and raises the
\* unreadable-file error exactly when all three failed to decode.
C29_FirstDecodingWins ==
    (loader.pc = "returned" /\ loader.result.loader = "txt") =>
        LET tried == loader.result.tried
            n     == Len(tried)
            order == <<"utf-8", "cp1251", "latin-1">>
        IN  /\ n \in 1..3
            /\ tried = SubSeq(order, 1, n)
            /\ \A i \in 1..(n - 1) :
                  loader.o.dec[tried[i]] \in {"UnicodeDecodeError", "LookupError"}
            /\ ~loader.result.raised <=> loader.o.dec[tried[n]] = "ok"
            /\ ~loader.result.raised => loader.result.text = <<tried[n]>>
            /\ loader.result.err = "unreadable_file" <=>
                  \A i \in 1..3 :
                    loader.o.dec[order[i]] \in {"UnicodeDecodeError", "LookupError"}
            /\ loader.result.err = "unreadable_file" => loader.result.raised /\ n = 3
\* utf-8 failed to decode, cp1251 decoded, and latin-1, which would have
\* decoded too, was not tried
C29_Witness ==
    /\ loader.pc = "returned" /\ loader.result.loader = "txt"
    /\ loader.result.tried = <<"utf-8", "cp1251">>
    /\ ~loader.result.raised /\ loader.result.text = <<"cp1251">>
    /\ loader.o.dec["utf-8"] = "UnicodeDecodeError" /\ loader.o.dec["latin-1"] = "ok"

\* ------------------------------------------------------ the displayed count
\* no worker is running, no callback is waiting and the UI thread is idle
ShellAtRest ==
    /\ UiIdle
    /\ after_queue = <<>>
    /\ \A b \in DOMAIN uploads : uploads[b].pc = "done"
    /\ \A j \in DOMAIN analyses : analyses[j].pc = "done"
\* C34: once the upload batches, removals and clear-all calls have
\* completed, the count the shell displays, len(loaded_docs), is the
\* engine's document_count().
C34_DisplayedCountIsEngineCount ==
    ShellAtRest => Len(loaded_docs) = DocumentCount(yandex, Eng)

\* ------------------------------------------------------ the analysis workers
InAnalyze == {j \in DOMAIN analyses : analyses[j].pc \in {"thread", "waiting"}}
\* C37: at most one analysis worker is inside RAGEngine.analyze at any time.
C37_OneAnalysisAtATime == Cardinality(InAnalyze) <= 1

====
